---- MODULE Spec2Model ----
(***************************************************************************)
(* State-machine model of the blown-fuse session runtime                   *)
(* (src/src/session.rs): Start, the handshake, the receive/dispatch loop,  *)
(* the buffer pool, reply framing and the unmount latch.                   *)
(***************************************************************************)
EXTENDS Integers, Sequences, FiniteSets, TLC

\* ------------------------------------------------------------------ bounds
\* Renegotiation rounds the kernel may force during one handshake.
MaxRounds == 2
\* Requests the kernel delivers after the handshake.
MaxRequests == 2
\* Owned::op invocations the host makes on one Owned.
MaxOwnedOps == 2
\* Values sent on the interrupt broadcast channel.
MaxInterrupts == 2
\* Owned values whose drop is under way at the same time.
MaxDropping == 1
\* Segment groups in one OutputChain.
MaxPeers == 1

MaxBody == 3
MaxPool == 2
MaxReads == 3

MaxOverrun == 2

MaxEndpoints == 2
MaxCount == 3

MaxChain == 3
\* Entries a handler offers to one buffered Readdir reply.
MaxEntries == 3

\* ------------------------------------------------------- program constants
MAJOR_VERSION == 7
TARGET_MINOR_VERSION == 32
REQUIRED_MINOR_VERSION == 31
MIN_READ_SIZE == 8192
SHARED_BUFFERS == 32
\* size_of::<InHeader>() and size_of::<OutHeader>()
HEADER_END == 40
OUT_HEADER_SIZE == 16
\* size_of::<(InHeader, WriteIn)>()
WRITE_OVERHEAD == 80
\* errno values (nix::errno::Errno on Linux)
EIO == 5
EINTR == 4
ENOENT == 2
ENOSYS == 38
ENOMSG == 42
EPROTONOSUPPORT == 93

\* Opcode numbers (enum Opcode).
OP_LOOKUP == 1
OP_FORGET == 2
OP_SETATTR == 4
OP_STATFS == 17
OP_INIT == 26
OP_INTERRUPT == 36
OP_DESTROY == 38
OP_BATCH_FORGET == 42
\* Opcode numbers outside enum Opcode: 0x5EADBEEF, standing for any such
\* u32 (0xDEADBEEF itself exceeds the model checker's signed 32-bit integers).
INTERRUPT_BROADCAST_CAPACITY == 32

ENOANO == 55
ROOT == 1

UnknownOpcodes == {1588444911}

\* Every discriminant of enum Opcode.
KnownOpcodes == (1..6) \cup (8..18) \cup (20..47)

\* The opcodes Endpoint::receive turns into a Dispatch variant.
Dispatched ==
    {1, 2, 3, 5, 6, 9, 10, 11, 13, 14, 15, 16, 17, 18, 20, 21, 22, 23, 24,
     25, 27, 28, 29, 30, 34, 35, 42, 44}

OP_SYMLINK == 6
OP_MKDIR == 9
OP_LINK == 13
OP_OPEN == 14
OP_GETXATTR == 22
OP_READDIR == 28
OP_CREATE == 35
OP_READDIRPLUS == 44

ERANGE == 34
ENOBUFS == 105

\* log2 of the alignment of directory records; the sizes of proto::Dirent
\* and proto::DirentPlus.
DIRENT_ALIGNMENT_BITS == 3
DirentSize == 24
DirentPlusSize == 152

\* System page sizes considered (util::page_size is a sysconf query).
PageSizes == {4096}

\* --------------------------------------------------------------- encoding
\* bytemuck::bytes_of on a little-endian u32.
LE32(n) ==
    << n % 256, (n \div 256) % 256, (n \div 65536) % 256,
       (n \div 16777216) % 256 >>

\* bytemuck cast of 4 bytes at 1-based offset off back to a u32.
U32At(bytes, off) ==
    bytes[off] + 256 * bytes[off + 1] + 65536 * bytes[off + 2]
        + 16777216 * bytes[off + 3]

LE16(n) == << n % 256, (n \div 256) % 256 >>

Zeros(n) == [i \in 1..n |-> 0]
Ones(n) == [i \in 1..n |-> 1]

\* ChainPreceded that puts the new group behind the chain.
ChainPrecededAppends(chain, segments) == chain \o << segments >>

\* ---------------------------------------------------------- OutputChain
\* A chain is the sequence of its segment groups, front first.
ChainEmpty == << <<>> >>
ChainTail(segments) == << segments >>
ChainPreceded(chain, segments) == << segments >> \o chain

RECURSIVE ConcatAll(_)
ConcatAll(seqs) ==
    IF seqs = <<>> THEN <<>> ELSE Head(seqs) \o ConcatAll(Tail(seqs))

\* chain.iter().flat_map(<[_]>::iter): every segment, in write order.
ChainSegments(chain) == ConcatAll(chain)

RECURSIVE SumLen(_)
SumLen(segs) ==
    IF segs = <<>> THEN 0 ELSE Len(Head(segs)) + SumLen(Tail(segs))

\* --------------------------------------------------------- Session::send
NoFrame == [len |-> 0, error |-> 0, unique |-> 0, payload |-> <<>>,
            written |-> 0, result |-> "none", call |-> "none", errno |-> 0]

\* What writev may do with one frame.
WriteOutcomes == {"full", "short", "ioerr"}

\* SendLength with the header left out of the length.
SendLengthNoHeader(output) == SumLen(ChainSegments(output))

SendLength(output) == OUT_HEADER_SIZE + SumLen(ChainSegments(output))

\* Bytes writev reports for a frame of `length` bytes (-1: it failed).
Writev(length, outcome) ==
    CASE outcome = "full" -> length
      [] outcome = "short" -> length - 1
      [] OTHER -> -1

SendResult(length, written) ==
    IF written < 0 THEN "Io"
    ELSE IF written = length THEN "Ok" ELSE "ShortWrite"

\* The frame one Session::send call puts on the session fd, with its result
\* (call and errno record which of Session::ok and Session::fail made it,
\* and fail's argument).
Send(unique, error, output, outcome) ==
    LET length == SendLength(output)
        written == Writev(length, outcome)
    IN  [len |-> length, error |-> error, unique |-> unique,
         payload |-> ConcatAll(ChainSegments(output)),
         written |-> written, result |-> SendResult(length, written),
         call |-> "ok", errno |-> 0]

SessionOk(unique, output, outcome) == Send(unique, 0, output, outcome)

\* SessionFail without the coercion of a non-positive errno.
SessionFailNoCoerce(unique, errno, outcome) ==
    [Send(unique, -errno, ChainEmpty, outcome)
        EXCEPT !.call = "fail", !.errno = errno]

SessionFail(unique, errno, outcome) ==
    LET e == IF errno <= 0 THEN ENOMSG ELSE errno
    IN  [Send(unique, -e, ChainEmpty, outcome)
            EXCEPT !.call = "fail", !.errno = errno]

\* -------------------------------------------------------- request parsing
\* A message as read from the session fd: nread bytes, of which the first
\* HEADER_END are the InHeader (len, opcode, unique) and the rest the body.
Message(opcode, unique, body) ==
    [nread |-> HEADER_END + Len(body), len |-> HEADER_END + Len(body),
     opcode |-> opcode, unique |-> unique, body |-> body]

\* InHeader::from_bytes: "Ok", or the FuseError it returns.
InHeaderFromBytes(m) ==
    IF m.nread < HEADER_END THEN "Truncated"
    ELSE IF m.len # m.nread THEN "BadLength"
    ELSE IF m.opcode \notin KnownOpcodes THEN "BadOpcode"
    ELSE "Ok"

Pod(size) == [kind |-> "pod", size |-> size]
PodSlice(size) == [kind |-> "slice", size |-> size]
CStr == [kind |-> "cstr", size |-> 0]

\* Operation::RequestBody of Lookup, Forget, Init and Statfs. Forget is an
\* OpcodeSelect: the BatchForget opcode selects (BatchForgetIn, [ForgetOne]),
\* any other ForgetIn.
LookupBody == << CStr >>
ForgetBody(opcode) ==
    IF opcode = OP_BATCH_FORGET THEN << Pod(8), PodSlice(16) >>
    ELSE << Pod(8) >>
InitBody == << Pod(16) >>
StatfsBody == << >>

\* The RequestBody of the operation an opcode is dispatched as, for the
\* operations whose bodies this model parses.
\* Operation::RequestBody of Mkdir (MkdirIn, name), Symlink (name, target),
\* Link (LinkIn, name), Open (OpenIn), Create (CreateIn, name), Getxattr
\* (GetxattrIn, name) and Readdir (ReaddirPlusIn or ReaddirIn, both one
\* ReadIn).
MkdirBody == << Pod(8), CStr >>
SymlinkBody == << CStr, CStr >>
LinkBody == << Pod(8), CStr >>
OpenBody == << Pod(8) >>
CreateBody == << Pod(16), CStr >>
GetxattrBody == << Pod(8), CStr >>
ReaddirBody == << Pod(40) >>

Grammar(opcode) ==
    CASE opcode = OP_LOOKUP -> LookupBody
      [] opcode \in {OP_FORGET, OP_BATCH_FORGET} -> ForgetBody(opcode)
      [] opcode = OP_STATFS -> StatfsBody
      [] opcode = OP_INIT -> InitBody
      [] opcode = OP_MKDIR -> MkdirBody
      [] opcode = OP_SYMLINK -> SymlinkBody
      [] opcode = OP_LINK -> LinkBody
      [] opcode = OP_OPEN -> OpenBody
      [] opcode = OP_CREATE -> CreateBody
      [] opcode = OP_GETXATTR -> GetxattrBody
      [] opcode \in {OP_READDIR, OP_READDIRPLUS} -> ReaddirBody

Drop(bytes, n) == SubSeq(bytes, n + 1, Len(bytes))

\* Index of the first NUL byte, 0 when there is none.
FirstNul(bytes) ==
    IF \E i \in 1..Len(bytes) : bytes[i] = 0
    THEN CHOOSE i \in 1..Len(bytes) :
            bytes[i] = 0 /\ \A j \in 1..(i - 1) : bytes[j] # 0
    ELSE 0

\* CStr::from_bytes_with_nul succeeds: one NUL, and it is the last byte.
IsCStr(bytes) == Len(bytes) > 0 /\ FirstNul(bytes) = Len(bytes)

\* split_from of one field: [err |-> "Ok" or the error, rest |-> remainder].
SplitFrom(field, bytes, isLast) ==
    CASE field.kind = "pod" ->
            IF Len(bytes) < field.size
            THEN [err |-> "Truncated", rest |-> <<>>]
            ELSE [err |-> "Ok", rest |-> Drop(bytes, field.size)]
      [] field.kind = "slice" ->
            IF Len(bytes) % field.size # 0
            THEN [err |-> "Truncated", rest |-> <<>>]
            ELSE [err |-> "Ok", rest |-> <<>>]
      [] OTHER ->
            LET nul == FirstNul(bytes)
                cut == IF isLast THEN Len(bytes) ELSE nul
            IN  IF ~isLast /\ nul = 0
                THEN [err |-> "Truncated", rest |-> <<>>]
                ELSE IF ~IsCStr(SubSeq(bytes, 1, cut))
                THEN [err |-> "BadLength", rest |-> <<>>]
                ELSE [err |-> "Ok", rest |-> Drop(bytes, cut)]

RECURSIVE SplitAll(_, _)
SplitAll(fields, bytes) ==
    IF fields = <<>> THEN [err |-> "Ok", rest |-> bytes]
    ELSE LET r == SplitFrom(Head(fields), bytes, Len(fields) = 1)
         IN  IF r.err # "Ok" THEN r ELSE SplitAll(Tail(fields), r.rest)

\* Structured::toplevel_from: the body must parse with nothing left over.
ToplevelFrom(fields, bytes) ==
    LET r == SplitAll(fields, bytes)
    IN  IF r.err # "Ok" THEN r.err
        ELSE IF r.rest # <<>> THEN "BadLength" ELSE "Ok"

\* ---------------------------------------------------------------- Init
\* InitIn { major, minor, max_readahead, flags } as the kernel lays it out.
InitInBytes(major, minor, flags) ==
    LE32(major) \o LE32(minor) \o LE32(0) \o LE32(flags)

RECURSIVE Pow2(_)
Pow2(n) == IF n = 0 THEN 1 ELSE 2 * Pow2(n - 1)

\* The set bits of a flag word (words below 2^31: the checker's integers).
BitSet(n) == {i \in 0..30 : (n \div Pow2(i)) % 2 = 1}

RECURSIVE BitsValue(_)
BitsValue(S) ==
    IF S = {} THEN 0
    ELSE LET i == CHOOSE x \in S : TRUE IN Pow2(i) + BitsValue(S \ {i})

\* The bits InitFlags names: from_bits_truncate drops the others.
InitFlagsAll == 0..25

\* The mask Reply<Init>::ok advertises at most.
InitFlagsSupported == {0, 2, 3, 4, 5, 11, 12, 13, 14, 18, 21, 22, 23}

\* InitOutBytes that advertises every flag the kernel offered.
InitOutBytesUnmasked(kernelFlags, pageSz) ==
    LET buffer_pages == MIN_READ_SIZE \div pageSz
        flags == BitSet(kernelFlags) \cap InitFlagsAll
        max_write == pageSz * buffer_pages - WRITE_OVERHEAD
    IN  LE32(MAJOR_VERSION) \o LE32(TARGET_MINOR_VERSION) \o LE32(0)
        \o LE32(BitsValue(flags)) \o LE16(0) \o LE16(0) \o LE32(max_write)
        \o LE32(1) \o LE16(buffer_pages) \o LE16(0) \o Zeros(32)

\* The InitOut that Reply<Init>::ok emits, as bytes.
InitOutBytes(kernelFlags, pageSz) ==
    LET buffer_pages == MIN_READ_SIZE \div pageSz
        flags == (BitSet(kernelFlags) \cap InitFlagsAll) \cap InitFlagsSupported
        max_write == pageSz * buffer_pages - WRITE_OVERHEAD
    IN  LE32(MAJOR_VERSION) \o LE32(TARGET_MINOR_VERSION) \o LE32(0)
        \o LE32(BitsValue(flags)) \o LE16(0) \o LE16(0) \o LE32(max_write)
        \o LE32(1) \o LE16(buffer_pages) \o LE16(0) \o Zeros(32)

\* ------------------------------------------------------------------ state
\* The state of a Request::try_from call: no call, the bytes handed over, or
\* the bytes and the result.
NoRequest == [pc |-> "none", bytes |-> [nread |-> 0], result |-> "none"]

\* The bytes of a request buffer that this model follows: the InHeader at
\* its start and the MaxBody bytes after it. Buffer::new zeroes them.
ZeroBuffer ==
    [header |-> [len |-> 0, opcode |-> 0, unique |-> 0],
     body |-> Zeros(MaxBody)]

NoIncoming ==
    [pc |-> "idle", header |-> ZeroBuffer.header, received |-> <<>>]

NoOp == [pc |-> "none", unique |-> 0, body |-> <<>>, received |-> <<>>]

\* The buffers right after Start::start: the pool Vec holds MaxPool buffers
\* (named 1..MaxPool), a new Endpoint has one of its own (named 0); `mem`
\* is the bytes of each, `owned` the Owned values, `incoming` the Incoming
\* the dispatcher holds, `op` what the last Owned::op call parsed.
FreshBuffers ==
    [mem |-> [b \in 0..MaxPool |-> ZeroBuffer],
     local_buffer |-> 0,
     buffers |-> [i \in 1..MaxPool |-> i],
     owned |-> {},
     incoming |-> NoIncoming,
     reads |-> 0,
     op |-> NoOp]

\* No Start::start call has allocated anything yet.
NoBuffers ==
    [pc |-> "none", page_size |-> 0, buffer_pages |-> 0, buffers |-> <<>>,
     init_buffer |-> -1, local_buffers |-> <<>>, max_write |-> "none",
     result |-> "none"]

\* Session<Fs>.known right after Session::new: HashMap::new(). The table is
\* the set of its entries; `last` is the operation made on it last.
NoLast == [op |-> "none", targets |-> <<>>, errno |-> 0]

NoFuse == [known |-> {}, started |-> FALSE, last |-> NoLast]

VARIABLES
    phase,        \* "start", "handshake", "running", "failed", "unmounted", "dropped"
    startMp,      \* Start.mountpoint is non-empty
    mountpoint,   \* Session.mountpoint: "Unset" (no Session yet), "Some", "None"
    pending,      \* a Session::unmount_sync call took the path, helper not yet run
    unmounts,     \* invocations of the unmount helper
    takes,        \* times the Session's mountpoint slot yielded Some
    pool,         \* Session.buffers.len()
    permits,      \* available permits of Session.buffer_semaphore
    pageSize,     \* util::page_size()
    rounds,       \* Restart rounds of the handshake in progress
    served,       \* requests read by Endpoint::receive
    initCalls,    \* invocations of the host's init handler
    startResult,  \* what Start::start returned ("none" until it returns)
    cur,          \* the request the endpoint is serving
    owned,        \* the live Owned values
    aborted,      \* Endpoint::receive has seen the session fd writable
    \* What the last step produced ("none" when it produced no such thing):
    lastFrame,    \* the frame Session::send put on the fd
    fin,          \* the message or op() call whose processing ended
    recvResult,   \* what Endpoint::receive returned
    unmountRet,   \* what Session::unmount_sync returned
    interrupts,   \* the uniques sent on Session.interrupt_tx, oldest first
    rxSeen,       \* how many of them the receiver of the interruptible()
                  \* call in progress was subscribed too late for, or has read
    lastRead,     \* the byte count read and the InHeader.len of the message
                  \* Endpoint::receive read in the last step
    rstate,       \* Reply.state of the request in the handler's hands, with
                  \* what the handler holds for it (the xattr value found)
    unveiled,     \* Known::unveil calls the last step made
    request,      \* the bytes handed to Request::try_from and what it returned
    peers,        \* owned() calls in progress on the session's other endpoints
    bufs,         \* the request buffers of one endpoint, of the pool and of the Owned values made from that endpoint's requests, with their bytes
    subscribed,   \* how many uniques had been sent when the receiver of the interruptible() call in progress subscribed
    lens,         \* the lengths in bytes of the request buffers Start::start and Session::endpoint have allocated, with the page size they saw
    fuse,         \* the lookup-count table of the fuse-tree Session<Fs>, with what its last operation was and answered
    oc            \* an OutputChain being built and iterated

vars == << phase, startMp, mountpoint, pending, unmounts, takes, pool, permits,
           pageSize, rounds, served, initCalls, startResult, cur, owned,
           aborted, lastFrame, fin, recvResult, unmountRet, interrupts,
           rxSeen, lastRead, rstate, unveiled, request, peers, bufs, subscribed, lens, fuse, oc >>

NoRead == [nread |-> 0, len |-> 0]

\* The ReplyState () of the operations that keep nothing in their Reply.
NoState == [kind |-> "unit"]

\* No OutputChain built yet.
NoChain == [pc |-> "none", args |-> <<>>, chain |-> <<>>, iter |-> <<>>,
            seen |-> <<>>]

Idle == [pc |-> "idle", unique |-> 0, opcode |-> 0, body |-> <<>>]

NoFin == [kind |-> "none", unique |-> 0, opcode |-> 0, body |-> <<>>,
          ret |-> "none", replies |-> 0, ran |-> 0, parse |-> "none"]

FinOf(kind, m, ret, replies, ran, parse) ==
    [kind |-> kind, unique |-> m.unique, opcode |-> m.opcode,
     body |-> m.body, ret |-> ret, replies |-> replies, ran |-> ran,
     parse |-> parse]

\* The host tasks that take requests out of the receive loop; each holds
\* one Owned at a time.
HostTasks == {"t1"}

Init ==
    /\ phase = "start"
    /\ startMp = TRUE
    /\ mountpoint = "Unset"
    /\ pending = FALSE
    /\ unmounts = 0
    /\ takes = 0
    /\ pool = 0
    /\ permits = 0
    /\ pageSize \in PageSizes
    /\ rounds = 0
    /\ served = 0
    /\ initCalls = 0
    /\ startResult = "none"
    /\ cur = Idle
    /\ owned = {}
    /\ aborted = FALSE
    /\ lastFrame = NoFrame
    /\ fin = NoFin
    /\ recvResult = "none"
    /\ unmountRet = "none"
    /\ interrupts = <<>>
    /\ rxSeen = 0
    /\ lastRead = NoRead
    /\ rstate = NoState
    /\ unveiled = 0
    /\ oc = NoChain
    /\ fuse = NoFuse
    /\ lens = NoBuffers
    /\ subscribed = 0
    /\ bufs = FreshBuffers
    /\ peers = {}
    /\ request = NoRequest

\* ------------------------------------------------------------------ Start
\* Drop for Start.
StartDrop ==
    /\ phase = "start"
    /\ phase' = "unmounted"
    /\ unmounts' = IF startMp THEN unmounts + 1 ELSE unmounts
    /\ lastFrame' = NoFrame /\ fin' = NoFin
    /\ recvResult' = "none" /\ unmountRet' = "none"
    /\ UNCHANGED << startMp, mountpoint, pending, takes, pool, permits,
                    pageSize, rounds, served, initCalls, startResult, cur,
                    owned, aborted >>
    /\ UNCHANGED << interrupts, rxSeen >>
    /\ lastRead' = NoRead
    /\ unveiled' = 0
    /\ UNCHANGED << rstate, request, peers, bufs, subscribed, lens, fuse, oc >>

\* StartUnmountSync that leaves the path in the Start, whose drop then
\* unmounts again.
StartUnmountSyncKeepsPath ==
    /\ phase = "start"
    /\ phase' = "unmounted"
    /\ startMp' = TRUE
    /\ unmounts' = unmounts + 2
    /\ lastFrame' = NoFrame /\ fin' = NoFin
    /\ recvResult' = "none" /\ unmountRet' = "none"
    /\ UNCHANGED << mountpoint, pending, takes, pool, permits, pageSize,
                    rounds, served, initCalls, startResult, cur, owned,
                    aborted >>
    /\ UNCHANGED << interrupts, rxSeen >>
    /\ lastRead' = NoRead
    /\ unveiled' = 0
    /\ UNCHANGED << rstate, request, peers, bufs, subscribed, lens, fuse, oc >>

\* Start::unmount_sync: takes the path, runs the helper; the drop of the
\* consumed Start then finds an empty path.
StartUnmountSync ==
    /\ phase = "start"
    /\ phase' = "unmounted"
    /\ startMp' = FALSE
    /\ unmounts' = unmounts + 1
    /\ lastFrame' = NoFrame /\ fin' = NoFin
    /\ recvResult' = "none" /\ unmountRet' = "none"
    /\ UNCHANGED << mountpoint, pending, takes, pool, permits, pageSize,
                    rounds, served, initCalls, startResult, cur, owned,
                    aborted >>
    /\ UNCHANGED << interrupts, rxSeen >>
    /\ lastRead' = NoRead
    /\ unveiled' = 0
    /\ UNCHANGED << rstate, request, peers, bufs, subscribed, lens, fuse, oc >>

\* Start::start up to the handshake loop: the path moves into the Session,
\* the pool is filled and the handshake borrows one buffer from it.
\* registered = FALSE: AsyncFd::with_interest fails before a Session exists.
StartStart(registered) ==
    /\ phase = "start"
    /\ startMp' = FALSE
    /\ IF registered
       THEN /\ phase' = "handshake"
            /\ mountpoint' = "Some"
            /\ pool' = SHARED_BUFFERS - 1
            /\ permits' = SHARED_BUFFERS
            /\ startResult' = startResult
       ELSE /\ phase' = "failed"
            /\ startResult' = "Io"
            /\ UNCHANGED << mountpoint, pool, permits >>
    /\ lastFrame' = NoFrame /\ fin' = NoFin
    /\ recvResult' = "none" /\ unmountRet' = "none"
    /\ UNCHANGED << pending, unmounts, takes, pageSize, rounds, served,
                    initCalls, cur, owned, aborted >>
    /\ UNCHANGED << interrupts, rxSeen >>
    /\ lastRead' = NoRead
    /\ unveiled' = 0
    /\ UNCHANGED << rstate, request, peers, bufs, subscribed, lens, fuse, oc >>

\* ------------------------------------------------------------- handshake
\* PARALLEL_DIROPS | MAX_PAGES, and POSIX_LOCKS | PARALLEL_DIROPS | 1 << 26.
InitFlagChoices == {4456448, 67371010}

InitVersions == {<<6, 31>>, <<7, 30>>, <<7, 31>>, <<8, 0>>}

\* What the kernel may deliver while the handshake reads.
HsMessages(u) ==
    {Message(OP_INIT, u, InitInBytes(v[1], v[2], f)) :
        v \in InitVersions, f \in InitFlagChoices}
    \cup {Message(OP_LOOKUP, u, <<1, 0>>), Message(OP_INIT, u, Ones(8))}
    \cup {Message(op, u, <<>>) : op \in UnknownOpcodes}

\* The terminal call the host's init handler makes on its Reply<Init>.
HostInitReplies == {"ok", "fail"}

\* A handshake step that sends nothing and returns r.
HsQuiet(r) == [ret |-> r, frame |-> NoFrame, sends |-> 0, inits |-> 0]

\* MajorCmp with the Greater arm folded into Equal.
MajorCmpNoGreater(major) ==
    IF major >= MAJOR_VERSION THEN "Equal" ELSE "Less"

\* body.major.cmp(&MAJOR_VERSION)
MajorCmp(major) ==
    IF major > MAJOR_VERSION THEN "Greater"
    ELSE IF major = MAJOR_VERSION THEN "Equal" ELSE "Less"

\* SupportedVersion without the minor version test.
SupportedVersionAnyMinor(ordering, minor) == ordering = "Equal"

\* `supported` for the orderings that do not restart.
SupportedVersion(ordering, minor) ==
    IF ordering = "Equal" THEN minor >= REQUIRED_MINOR_VERSION ELSE FALSE

\* HandshakeNonInit with a negative reply before the error.
HandshakeNonInitReplying(m, outcome) ==
    [ret |-> "ProtocolInit", frame |-> SessionFail(m.unique, EIO, outcome),
     sends |-> 1, inits |-> 0]

\* The arm of handshake's match for an opcode other than Init.
HandshakeNonInit(m, outcome) == HsQuiet("ProtocolInit")

\* One call of Session::handshake on message m: what it returns (ret), the
\* frame it sent if any, and whether the init handler ran.
HandshakeOutcome(m, choice, outcome, pageSz) ==
    LET hdr == InHeaderFromBytes(m)
        parse == ToplevelFrom(Grammar(OP_INIT), m.body)
        major == U32At(m.body, 1)
        minor == U32At(m.body, 5)
        flags == U32At(m.body, 13)
    IN  IF hdr # "Ok" THEN HsQuiet(hdr)
        ELSE IF m.opcode # OP_INIT THEN HandshakeNonInit(m, outcome)
        ELSE IF parse # "Ok" THEN HsQuiet(parse)
        ELSE IF MajorCmp(major) = "Greater"
        THEN LET f == SessionOk(m.unique,
                                ChainTail(<< LE32(MAJOR_VERSION) >>), outcome)
             IN  [ret |-> IF f.result = "Ok" THEN "Restart" ELSE f.result,
                  frame |-> f, sends |-> 1, inits |-> 0]
        ELSE IF ~SupportedVersion(MajorCmp(major), minor)
        THEN LET f == SessionFail(m.unique, EPROTONOSUPPORT, outcome)
             IN  [ret |-> IF f.result = "Ok" THEN "ProtocolInit" ELSE f.result,
                  frame |-> f, sends |-> 1, inits |-> 0]
        ELSE LET f == IF choice = "ok"
                      THEN SessionOk(m.unique,
                               ChainTail(<< InitOutBytes(flags, pageSz) >>),
                               outcome)
                      ELSE SessionFail(m.unique, EIO, outcome)
             IN  [ret |-> "Done", frame |-> f, sends |-> 1, inits |-> 1]

\* HandshakeStep whose Done arm does not push init_buffer back.
HandshakeStepKeepsBuffer(h, f) ==
    /\ phase = "handshake"
    /\ h.ret = "Restart" => rounds < MaxRounds
    /\ lastFrame' = h.frame
    /\ initCalls' = initCalls + h.inits
    /\ fin' = f
    /\ CASE h.ret = "Restart" ->
             /\ rounds' = rounds + 1
             /\ UNCHANGED << phase, startResult, mountpoint, unmounts, takes,
                             pool >>
         [] h.ret = "Done" ->
             /\ phase' = "running"
             /\ startResult' = "Ok"
             /\ rounds' = 0
             /\ UNCHANGED << mountpoint, unmounts, takes, pool >>
         [] OTHER ->
             /\ phase' = "failed"
             /\ startResult' = h.ret
             /\ mountpoint' = "None"
             /\ unmounts' = IF mountpoint = "Some" THEN unmounts + 1 ELSE unmounts
             /\ takes' = IF mountpoint = "Some" THEN takes + 1 ELSE takes
             /\ UNCHANGED << rounds, pool >>
    /\ recvResult' = "none" /\ unmountRet' = "none"
    /\ UNCHANGED << startMp, pending, permits, pageSize, served, cur, owned,
                    aborted >>
    /\ UNCHANGED << interrupts, rxSeen >>
    /\ lastRead' = NoRead
    /\ unveiled' = 0
    /\ UNCHANGED << rstate, request, peers, bufs, subscribed, lens, fuse, oc >>

\* One iteration of the loop in Start::start with handshake result h:
\* Restart loops, Done returns the Session, an error drops the Session,
\* which unmounts.
HandshakeStep(h, f) ==
    /\ phase = "handshake"
    /\ h.ret = "Restart" => rounds < MaxRounds
    /\ lastFrame' = h.frame
    /\ initCalls' = initCalls + h.inits
    /\ fin' = f
    /\ CASE h.ret = "Restart" ->
             /\ rounds' = rounds + 1
             /\ UNCHANGED << phase, startResult, mountpoint, unmounts, takes,
                             pool >>
         [] h.ret = "Done" ->
             /\ phase' = "running"
             /\ startResult' = "Ok"
             /\ pool' = pool + 1
             /\ rounds' = 0
             /\ UNCHANGED << mountpoint, unmounts, takes >>
         [] OTHER ->
             /\ phase' = "failed"
             /\ startResult' = h.ret
             /\ mountpoint' = "None"
             /\ unmounts' = IF mountpoint = "Some" THEN unmounts + 1 ELSE unmounts
             /\ takes' = IF mountpoint = "Some" THEN takes + 1 ELSE takes
             /\ UNCHANGED << rounds, pool >>
    /\ recvResult' = "none" /\ unmountRet' = "none"
    /\ UNCHANGED << startMp, pending, permits, pageSize, served, cur, owned,
                    aborted >>
    /\ UNCHANGED << interrupts, rxSeen >>
    /\ lastRead' = NoRead
    /\ unveiled' = 0
    /\ UNCHANGED << rstate, request, peers, bufs, subscribed, lens, fuse, oc >>

\* The handshake's readable().await or read fails.
HandshakeReadError ==
    HandshakeStep(HsQuiet("Io"), [NoFin EXCEPT !.kind = "hs", !.ret = "Io"])

\* The write outcomes that matter to the handshake on m: it writes only for
\* a well-formed Init.
HandshakeWrites(m) ==
    IF /\ InHeaderFromBytes(m) = "Ok"
       /\ m.opcode = OP_INIT
       /\ ToplevelFrom(Grammar(OP_INIT), m.body) = "Ok"
    THEN WriteOutcomes ELSE {"full"}

\* The handshake reads message m.
Handshake(m, choice, outcome) ==
    LET h == HandshakeOutcome(m, choice, outcome, pageSize)
    IN  HandshakeStep(h, FinOf("hs", m, h.ret, h.sends, h.inits, "none"))

\* ------------------------------------------------------- Endpoint::receive
\* The unique the kernel gives the next request: distinct from every
\* handshake unique (1..MaxRounds + 1) and from every earlier request.
RequestUnique == MaxRounds + 2 + served

\* What the kernel may deliver to a running session.
Requests(u) ==
    {Message(OP_LOOKUP, u, <<1, 0>>), Message(OP_LOOKUP, u, <<1>>),
     Message(OP_FORGET, u, Ones(8)), Message(OP_FORGET, u, Ones(7)),
     Message(OP_BATCH_FORGET, u, LE32(1) \o Zeros(4) \o Ones(16)), Message(OP_SETATTR, u, <<>>),
     Message(OP_INTERRUPT, u, LE32(u - 1) \o Zeros(4)),
     Message(OP_DESTROY, u, <<>>),
     [Message(OP_STATFS, u, <<>>) EXCEPT !.len = HEADER_END + 1],
     [Message(OP_STATFS, u, <<>>) EXCEPT !.nread = 8]}
    \cup {Message(op, u, <<>>) : op \in UnknownOpcodes}

\* IoError replying with the errno of not_implemented.
IoErrorAsNotImplemented(unique, outcome) ==
    SessionFail(unique, ENOSYS, outcome)

\* Reply::not_implemented and Reply::io_error.
NotImplemented(unique, outcome) == SessionFail(unique, ENOSYS, outcome)
IoError(unique, outcome) == SessionFail(unique, EIO, outcome)

\* ReceiveArm with Destroy left to the catch-all arm.
ReceiveArmNoDestroy(opcode) ==
    IF opcode \in Dispatched THEN "dispatch" ELSE "not_implemented"

\* What receive's match on the opcode does with a well-formed header.
ReceiveArm(opcode) ==
    IF opcode = OP_DESTROY THEN "break"
    ELSE IF opcode \in Dispatched THEN "dispatch" ELSE "not_implemented"

\* Endpoint::receive when the read fails (with something other than
\* ENOENT, which receive retries): the error is returned.
ReceiveReadError ==
    /\ phase = "running"
    /\ cur.pc = "idle"
    /\ recvResult' = "Io"
    /\ lastFrame' = NoFrame /\ fin' = NoFin /\ unmountRet' = "none"
    /\ UNCHANGED << phase, startMp, mountpoint, pending, unmounts, takes,
                    pool, permits, pageSize, rounds, served, initCalls,
                    startResult, cur, owned, aborted >>
    /\ UNCHANGED << interrupts, rxSeen >>
    /\ lastRead' = NoRead
    /\ unveiled' = 0
    /\ UNCHANGED << rstate, request, peers, bufs, subscribed, lens, fuse, oc >>

\* The write outcomes that matter to receive on m: it writes only in the
\* not_implemented arm.
ReceiveWrites(m) ==
    IF InHeaderFromBytes(m) = "Ok" /\ ReceiveArm(m.opcode) = "not_implemented"
    THEN WriteOutcomes ELSE {"full"}

\* Endpoint::receive on message m, from the read to the dispatcher call (or
\* to its return when no dispatcher is called).
Receive(m, outcome) ==
    /\ phase = "running"
    /\ cur.pc = "idle"
    /\ ~aborted
    /\ served < MaxRequests
    /\ served' = served + 1
    /\ LET hdr == InHeaderFromBytes(m)
           arm == ReceiveArm(m.opcode)
       IN  IF hdr # "Ok"
           THEN /\ recvResult' = hdr
                /\ fin' = FinOf("req", m, hdr, 0, 0, "none")
                /\ lastFrame' = NoFrame
                /\ cur' = cur
           ELSE CASE arm = "break" ->
                       /\ recvResult' = "Break"
                       /\ fin' = FinOf("req", m, "Break", 0, 0, "none")
                       /\ lastFrame' = NoFrame
                       /\ cur' = cur
                  [] arm = "not_implemented" ->
                       /\ recvResult' = "Continue"
                       /\ fin' = FinOf("req", m, "Continue", 1, 0, "none")
                       /\ lastFrame' = NotImplemented(m.unique, outcome)
                       /\ cur' = cur
                  [] OTHER ->
                       /\ recvResult' = "none"
                       /\ fin' = NoFin
                       /\ lastFrame' = NoFrame
                       /\ cur' = [pc |-> "dispatch", unique |-> m.unique,
                                  opcode |-> m.opcode, body |-> m.body]
    /\ unmountRet' = "none"
    /\ UNCHANGED << phase, startMp, mountpoint, pending, unmounts, takes,
                    pool, permits, pageSize, rounds, initCalls, startResult,
                    owned, aborted >>
    /\ UNCHANGED << interrupts, rxSeen >>
    /\ lastRead' = [nread |-> m.nread, len |-> m.len]
    /\ unveiled' = 0
    /\ UNCHANGED << rstate, request, peers, bufs, subscribed, lens, fuse, oc >>

\* ReceiveAbort that leaves the recorded mountpoint in its slot.
ReceiveAbortKeepsPath ==
    /\ phase = "running"
    /\ cur.pc = "idle"
    /\ aborted' = TRUE
    /\ recvResult' = "Break"
    /\ fin' = [NoFin EXCEPT !.kind = "abort", !.ret = "Break"]
    /\ lastFrame' = NoFrame
    /\ unmountRet' = "none"
    /\ UNCHANGED << phase, startMp, mountpoint, takes, pending, unmounts,
                    pool, permits, pageSize, rounds, served, initCalls,
                    startResult, cur, owned >>
    /\ UNCHANGED << interrupts, rxSeen >>
    /\ lastRead' = NoRead
    /\ unveiled' = 0
    /\ UNCHANGED << rstate, request, peers, bufs, subscribed, lens, fuse, oc >>

\* receive's select! takes the writable branch: the mount was aborted.
ReceiveAbort ==
    /\ phase = "running"
    /\ cur.pc = "idle"
    /\ aborted' = TRUE
    /\ mountpoint' = "None"
    /\ takes' = IF mountpoint = "Some" THEN takes + 1 ELSE takes
    /\ recvResult' = "Break"
    /\ fin' = [NoFin EXCEPT !.kind = "abort", !.ret = "Break"]
    /\ lastFrame' = NoFrame
    /\ unmountRet' = "none"
    /\ UNCHANGED << phase, startMp, pending, unmounts, pool, permits,
                    pageSize, rounds, served, initCalls, startResult, cur,
                    owned >>
    /\ UNCHANGED << interrupts, rxSeen >>
    /\ lastRead' = NoRead
    /\ unveiled' = 0
    /\ UNCHANGED << rstate, request, peers, bufs, subscribed, lens, fuse, oc >>

\* ---------------------------------------------------------- host replies
\* Payloads the host's terminal reply methods hand to Reply::chain: here a
\* gather of three segments, one of them empty.
HostChains ==
    {ChainPreceded(ChainTail(<< <<2, 3>> >>), << <<1>>, <<>> >>)}

\* Errno values the host passes to Reply::fail (0 is Errno::UnknownErrno).
HostErrnos == {0, ENOENT}

\* The terminal call a handler makes on its Reply.
HostReplies ==
    {[kind |-> "ok", chain |-> c, errno |-> 0] : c \in HostChains}
    \cup {[kind |-> "fail", chain |-> ChainEmpty, errno |-> e] :
            e \in HostErrnos}

\* The frame that terminal call sends: ReplyOk for Forget writes nothing.
HostReplyFrame(unique, opcode, r, outcome) ==
    IF r.kind = "fail" THEN SessionFail(unique, r.errno, outcome)
    ELSE IF opcode \in {OP_FORGET, OP_BATCH_FORGET} THEN NoFrame
    ELSE SessionOk(unique, r.chain, outcome)

Sends(frame) == IF frame.result = "none" THEN 0 ELSE 1

\* 1 when the whole frame reached the session fd.
Written(frame) == IF frame.result = "Ok" THEN 1 ELSE 0

\* try_op: "Ok" when the body parses, else the parse error.
TryOp(opcode, body) == ToplevelFrom(Grammar(opcode), body)

\* OpenOutFlags bits, by position.
DIRECT_IO == 0
KEEP_CACHE == 1
NONSEEKABLE == 2
CACHE_DIR == 3
STREAM == 4

\* FromRequest for OpenOutFlags: no flag set.
OpenOutFlagsFrom == [kind |-> "open", flags |-> {}]

\* XattrReadState of a Getxattr request: the size its GetxattrIn names.
XattrReadStateFrom(body) ==
    [kind |-> "xattr", size |-> U32At(body, 1), found |-> FALSE,
     value |-> <<>>]

\* No entry offered to a buffered Readdir reply yet.
NoEntry == [name |-> <<>>, ino |-> 0, offset |-> 0]

\* FromRequest for ReaddirState<()>: max_read is ReadIn.size, is_plus says
\* whether the body matched the ReaddirPlus opcode; no buffer yet.
ReaddirStateFrom(opcode, body) ==
    [kind |-> "readdir", max_read |-> U32At(body, 17),
     is_plus |-> (opcode = OP_READDIRPLUS), buffered |-> FALSE,
     capacity |-> 0, buffer |-> <<>>, count |-> 0, offered |-> NoEntry]

\* FromRequest::from_request for the ReplyState of the operation an opcode
\* is dispatched as.
ReplyStateFrom(opcode, body) ==
    CASE opcode \in {OP_OPEN, OP_CREATE} -> OpenOutFlagsFrom
      [] opcode = OP_GETXATTR -> XattrReadStateFrom(body)
      [] opcode \in {OP_READDIR, OP_READDIRPLUS} ->
            ReaddirStateFrom(opcode, body)
      [] OTHER -> NoState

\* Incoming::op inside the dispatcher: a body that fails to parse is
\* answered by try_op and the dispatcher returns; else the handler starts.
IncomingOp(outcome) ==
    /\ phase = "running"
    /\ cur.pc = "dispatch"
    /\ LET parse == TryOp(cur.opcode, cur.body)
       IN  IF parse # "Ok"
           THEN /\ lastFrame' = IoError(cur.unique, outcome)
                /\ fin' = FinOf("req", cur, "Continue", 1, 0, parse)
                /\ recvResult' = "Continue"
                /\ cur' = Idle
           ELSE /\ lastFrame' = NoFrame
                /\ fin' = NoFin
                /\ recvResult' = "none"
                /\ cur' = [cur EXCEPT !.pc = "handler"]
    /\ rstate' = IF TryOp(cur.opcode, cur.body) = "Ok"
                 THEN ReplyStateFrom(cur.opcode, cur.body) ELSE NoState
    /\ unmountRet' = "none"
    /\ UNCHANGED << phase, startMp, mountpoint, pending, unmounts, takes,
                    pool, permits, pageSize, rounds, served, initCalls,
                    startResult, owned, aborted >>
    /\ UNCHANGED << interrupts, rxSeen >>
    /\ lastRead' = NoRead
    /\ unveiled' = 0
    /\ UNCHANGED << request, peers, bufs, subscribed, lens, fuse, oc >>

\* HostReply with the reply's write error returned from receive.
HostReplyPropagating(r, outcome) ==
    /\ phase = "running"
    /\ cur.pc = "handler"
    /\ LET f == HostReplyFrame(cur.unique, cur.opcode, r, outcome)
           ret == IF f.result \in {"Ok", "none"} THEN "Continue" ELSE f.result
       IN  /\ lastFrame' = f
           /\ fin' = FinOf("req", cur, ret, Sends(f), 1, "Ok")
           /\ recvResult' = ret
    /\ cur' = Idle
    /\ unmountRet' = "none"
    /\ UNCHANGED << phase, startMp, mountpoint, pending, unmounts, takes,
                    pool, permits, pageSize, rounds, served, initCalls,
                    startResult, owned, aborted >>
    /\ UNCHANGED << interrupts, rxSeen >>
    /\ lastRead' = NoRead
    /\ unveiled' = 0
    /\ UNCHANGED << rstate, request, peers, bufs, subscribed, lens, fuse, oc >>

\* The handler's terminal reply; the dispatcher's future completes and
\* receive returns Continue.
HostReply(r, outcome) ==
    /\ phase = "running"
    /\ cur.pc = "handler"
    /\ LET f == HostReplyFrame(cur.unique, cur.opcode, r, outcome)
       IN  /\ lastFrame' = f
           /\ fin' = FinOf("req", cur, "Continue", Sends(f), 1, "Ok")
    /\ recvResult' = "Continue"
    /\ cur' = Idle
    /\ unmountRet' = "none"
    /\ UNCHANGED << phase, startMp, mountpoint, pending, unmounts, takes,
                    pool, permits, pageSize, rounds, served, initCalls,
                    startResult, owned, aborted >>
    /\ UNCHANGED << interrupts, rxSeen >>
    /\ lastRead' = NoRead
    /\ unveiled' = 0
    /\ UNCHANGED << rstate, request, peers, bufs, subscribed, lens, fuse, oc >>

\* Dispatch::op (the body is not parsed) and Reply::fail on the generic
\* reply it yields.
HostGenericFail(errno, outcome) ==
    /\ phase = "running"
    /\ cur.pc = "dispatch"
    /\ lastFrame' = SessionFail(cur.unique, errno, outcome)
    /\ fin' = FinOf("req", cur, "Continue", 1, 0, "none")
    /\ recvResult' = "Continue"
    /\ cur' = Idle
    /\ unmountRet' = "none"
    /\ UNCHANGED << phase, startMp, mountpoint, pending, unmounts, takes,
                    pool, permits, pageSize, rounds, served, initCalls,
                    startResult, owned, aborted >>
    /\ UNCHANGED << interrupts, rxSeen >>
    /\ lastRead' = NoRead
    /\ unveiled' = 0
    /\ UNCHANGED << rstate, request, peers, bufs, subscribed, lens, fuse, oc >>

\* ---------------------------------------------------- Reply::interruptible
\* Reply::interrupted
Interrupted(unique, outcome) == SessionFail(unique, EINTR, outcome)

\* Reply::interruptible up to its select!: the handler hands over its Reply
\* and a future f, and interrupt_rx() subscribes a receiver, which gets only
\* the values sent from now on.
Interruptible ==
    /\ phase = "running"
    /\ cur.pc = "handler"
    /\ cur' = [cur EXCEPT !.pc = "racing"]
    /\ rxSeen' = Len(interrupts)
    /\ lastFrame' = NoFrame /\ fin' = NoFin
    /\ recvResult' = "none" /\ unmountRet' = "none"
    /\ UNCHANGED << phase, startMp, mountpoint, pending, unmounts, takes,
                    pool, permits, pageSize, rounds, served, initCalls,
                    startResult, owned, aborted, interrupts >>
    /\ lastRead' = NoRead
    /\ unveiled' = 0
    /\ UNCHANGED << rstate, request, peers, bufs, lens, fuse, oc >>
    /\ subscribed' = Len(interrupts)

\* select! takes f's branch: Completed(self, output) goes back to the
\* handler, which still holds the Reply.
RaceCompleted ==
    /\ phase = "running"
    /\ cur.pc = "racing"
    /\ cur' = [cur EXCEPT !.pc = "handler"]
    /\ fin' = FinOf("race", cur, "Completed", 0, 0, "none")
    /\ lastFrame' = NoFrame
    /\ recvResult' = "none" /\ unmountRet' = "none"
    /\ UNCHANGED << phase, startMp, mountpoint, pending, unmounts, takes,
                    pool, permits, pageSize, rounds, served, initCalls,
                    startResult, owned, aborted, interrupts, rxSeen >>
    /\ lastRead' = NoRead
    /\ unveiled' = 0
    /\ UNCHANGED << rstate, request, peers, bufs, subscribed, lens, fuse, oc >>

\* RaceRecv that takes any received unique for its own.
RaceRecvAnyUnique(outcome) ==
    /\ phase = "running"
    /\ cur.pc = "racing"
    /\ rxSeen < Len(interrupts)
    /\ Len(interrupts) - rxSeen <= INTERRUPT_BROADCAST_CAPACITY
    /\ rxSeen' = rxSeen + 1
    /\ lastFrame' = Interrupted(cur.unique, outcome)
    /\ fin' = FinOf("race", cur, "Interrupted", 1, 0, "none")
    /\ recvResult' = "Continue"
    /\ cur' = Idle
    /\ unmountRet' = "none"
    /\ UNCHANGED << phase, startMp, mountpoint, pending, unmounts, takes,
                    pool, permits, pageSize, rounds, served, initCalls,
                    startResult, owned, aborted, interrupts >>
    /\ lastRead' = NoRead
    /\ unveiled' = 0
    /\ UNCHANGED << rstate, request, peers, bufs, subscribed, lens, fuse, oc >>

\* select! takes the rx.recv() branch, which yields the next value sent
\* while the channel still retains it.
\* Its own unique: the reply is failed with EINTR, Interrupted(done) goes
\* back to the handler, which can only return it, and receive returns
\* Continue. Any other value: the loop continues.
RaceRecv(outcome) ==
    /\ phase = "running"
    /\ cur.pc = "racing"
    /\ rxSeen < Len(interrupts)
    /\ Len(interrupts) - rxSeen <= INTERRUPT_BROADCAST_CAPACITY
    /\ rxSeen' = rxSeen + 1
    /\ IF interrupts[rxSeen + 1] = cur.unique
       THEN /\ lastFrame' = Interrupted(cur.unique, outcome)
            /\ fin' = FinOf("race", cur, "Interrupted", 1, 0, "none")
            /\ recvResult' = "Continue"
            /\ cur' = Idle
       ELSE /\ lastFrame' = NoFrame
            /\ fin' = NoFin
            /\ recvResult' = "none"
            /\ cur' = cur
    /\ unmountRet' = "none"
    /\ UNCHANGED << phase, startMp, mountpoint, pending, unmounts, takes,
                    pool, permits, pageSize, rounds, served, initCalls,
                    startResult, owned, aborted, interrupts >>
    /\ lastRead' = NoRead
    /\ unveiled' = 0
    /\ UNCHANGED << rstate, request, peers, bufs, subscribed, lens, fuse, oc >>

\* RaceLagged that takes the lag error for an interrupt of its request.
RaceLaggedInterrupts ==
    /\ phase = "running"
    /\ cur.pc = "racing"
    /\ Len(interrupts) - rxSeen > INTERRUPT_BROADCAST_CAPACITY
    /\ rxSeen' = Len(interrupts) - INTERRUPT_BROADCAST_CAPACITY
    /\ lastFrame' = Interrupted(cur.unique, "full")
    /\ fin' = FinOf("race", cur, "Interrupted", 1, 0, "none")
    /\ recvResult' = "Continue"
    /\ cur' = Idle
    /\ unmountRet' = "none"
    /\ UNCHANGED << phase, startMp, mountpoint, pending, unmounts, takes,
                    pool, permits, pageSize, rounds, served, initCalls,
                    startResult, owned, aborted, interrupts >>
    /\ lastRead' = NoRead
    /\ unveiled' = 0
    /\ UNCHANGED << rstate, request, peers, bufs, subscribed, lens, fuse, oc >>

\* select! takes the rx.recv() branch after more than
\* INTERRUPT_BROADCAST_CAPACITY values were sent past the receiver: recv
\* returns Err(Lagged), having moved the receiver to the oldest value the
\* channel retains, and the `_ => continue` arm goes round the loop.
RaceLagged ==
    /\ phase = "running"
    /\ cur.pc = "racing"
    /\ Len(interrupts) - rxSeen > INTERRUPT_BROADCAST_CAPACITY
    /\ rxSeen' = Len(interrupts) - INTERRUPT_BROADCAST_CAPACITY
    /\ lastFrame' = NoFrame
    /\ fin' = NoFin
    /\ recvResult' = "none"
    /\ cur' = cur
    /\ unmountRet' = "none"
    /\ UNCHANGED << phase, startMp, mountpoint, pending, unmounts, takes,
                    pool, permits, pageSize, rounds, served, initCalls,
                    startResult, owned, aborted, interrupts >>
    /\ lastRead' = NoRead
    /\ unveiled' = 0
    /\ UNCHANGED << rstate, request, peers, bufs, subscribed, lens, fuse, oc >>

\* The write outcomes that matter to RaceRecv: it writes only on a match.
RaceWrites ==
    IF rxSeen < Len(interrupts) /\ interrupts[rxSeen + 1] = cur.unique
    THEN WriteOutcomes ELSE {"full"}

\* A unique is sent on interrupt_tx. Endpoint::receive never does it (its
\* match has no Interrupt arm), so this step is no part of Next.
InterruptSend(u) ==
    /\ phase = "running"
    /\ Len(interrupts) < MaxInterrupts
    /\ interrupts' = Append(interrupts, u)
    /\ lastFrame' = NoFrame /\ fin' = NoFin
    /\ recvResult' = "none" /\ unmountRet' = "none"
    /\ UNCHANGED << phase, startMp, mountpoint, pending, unmounts, takes,
                    pool, permits, pageSize, rounds, served, initCalls,
                    startResult, cur, owned, aborted, rxSeen >>
    /\ lastRead' = NoRead
    /\ unveiled' = 0
    /\ UNCHANGED << rstate, request, peers, bufs, subscribed, lens, fuse, oc >>

\* A unique is sent on interrupt_tx while a request is in a handler's
\* hands: the request's own unique, once, or the unique of a request long
\* answered; up to MaxOverrun more values than the channel retains.
StaleUnique == 1

BurstUniques ==
    {StaleUnique}
        \cup {u \in {cur.unique} : \A i \in 1..Len(interrupts) :
                                       interrupts[i] # u}

InterruptBurst(u) ==
    /\ phase = "running"
    /\ cur.pc \in {"handler", "racing"}
    /\ Len(interrupts) < INTERRUPT_BROADCAST_CAPACITY + MaxOverrun
    /\ interrupts' = Append(interrupts, u)
    /\ lastFrame' = NoFrame /\ fin' = NoFin
    /\ recvResult' = "none" /\ unmountRet' = "none"
    /\ UNCHANGED << phase, startMp, mountpoint, pending, unmounts, takes,
                    pool, permits, pageSize, rounds, served, initCalls,
                    startResult, cur, owned, aborted, rxSeen >>
    /\ lastRead' = NoRead
    /\ unveiled' = 0
    /\ UNCHANGED << rstate, request, peers, bufs, subscribed, lens, fuse, oc >>

\* ------------------------------------------------------------------ Owned
\* The dispatcher calls Incoming::owned, which runs up to the
\* acquire_owned().await.
OwnedCall ==
    /\ phase = "running"
    /\ cur.pc = "dispatch"
    /\ cur' = [cur EXCEPT !.pc = "owning"]
    /\ lastFrame' = NoFrame /\ fin' = NoFin
    /\ recvResult' = "none" /\ unmountRet' = "none"
    /\ UNCHANGED << phase, startMp, mountpoint, pending, unmounts, takes,
                    pool, permits, pageSize, rounds, served, initCalls,
                    startResult, owned, aborted >>
    /\ UNCHANGED << interrupts, rxSeen >>
    /\ lastRead' = NoRead
    /\ unveiled' = 0
    /\ UNCHANGED << rstate, request, peers, bufs, subscribed, lens, fuse, oc >>

\* OwnedAcquire that neither waits for a permit nor takes one.
OwnedAcquireNoPermit ==
    /\ phase = "running"
    /\ cur.pc = "owning"
    /\ cur' = [cur EXCEPT !.pc = "acquired"]
    /\ lastFrame' = NoFrame /\ fin' = NoFin
    /\ recvResult' = "none" /\ unmountRet' = "none"
    /\ UNCHANGED << phase, startMp, mountpoint, pending, unmounts, takes,
                    pool, permits, pageSize, rounds, served, initCalls,
                    startResult, owned, aborted >>
    /\ UNCHANGED << interrupts, rxSeen >>
    /\ lastRead' = NoRead
    /\ unveiled' = 0
    /\ UNCHANGED << rstate, request, peers, bufs, subscribed, lens, fuse, oc >>

\* Incoming::owned: acquire_owned() returns a permit (the call stays
\* suspended while none is available).
OwnedAcquire ==
    /\ phase = "running"
    /\ cur.pc = "owning"
    /\ permits > 0
    /\ permits' = permits - 1
    /\ cur' = [cur EXCEPT !.pc = "acquired"]
    /\ lastFrame' = NoFrame /\ fin' = NoFin
    /\ recvResult' = "none" /\ unmountRet' = "none"
    /\ UNCHANGED << phase, startMp, mountpoint, pending, unmounts, takes,
                    pool, pageSize, rounds, served, initCalls, startResult,
                    owned, aborted >>
    /\ UNCHANGED << interrupts, rxSeen >>
    /\ lastRead' = NoRead
    /\ unveiled' = 0
    /\ UNCHANGED << rstate, request, peers, bufs, subscribed, lens, fuse, oc >>

\* Incoming::owned, second half: pop a pool buffer, swap it with the
\* endpoint's buffer, build the Owned; the dispatcher returns the Done and
\* receive returns Continue.
OwnedSwap ==
    /\ phase = "running"
    /\ cur.pc = "acquired"
    /\ pool > 0
    /\ pool' = pool - 1
    /\ owned' = owned \cup {[pc |-> "live", unique |-> cur.unique,
                             opcode |-> cur.opcode, body |-> cur.body,
                             replies |-> 0, written |-> 0]}
    /\ fin' = FinOf("handoff", cur, "Continue", 0, 0, "none")
    /\ recvResult' = "Continue"
    /\ cur' = Idle
    /\ lastFrame' = NoFrame
    /\ unmountRet' = "none"
    /\ UNCHANGED << phase, startMp, mountpoint, pending, unmounts, takes,
                    permits, pageSize, rounds, served, initCalls,
                    startResult, aborted >>
    /\ UNCHANGED << interrupts, rxSeen >>
    /\ lastRead' = NoRead
    /\ unveiled' = 0
    /\ UNCHANGED << rstate, request, peers, bufs, subscribed, lens, fuse, oc >>

\* One Owned::op call: try_op on the owned buffer, then the handler with its
\* terminal reply, or the EIO reply of a body that fails to parse.
OwnedOp(o, r, outcome) ==
    /\ o \in owned
    /\ o.pc = "live"
    /\ o.replies < MaxOwnedOps
    /\ LET parse == TryOp(o.opcode, o.body)
           f == IF parse # "Ok" THEN IoError(o.unique, outcome)
                ELSE HostReplyFrame(o.unique, o.opcode, r, outcome)
       IN  /\ lastFrame' = f
           /\ fin' = FinOf("op", o, "none", Sends(f),
                           IF parse = "Ok" THEN 1 ELSE 0, parse)
           /\ owned' = (owned \ {o})
                         \cup {[o EXCEPT !.replies = o.replies + Sends(f),
                                         !.written = o.written
                                             + Written(f)]}
    /\ recvResult' = "none"
    /\ unmountRet' = "none"
    /\ UNCHANGED << phase, startMp, mountpoint, pending, unmounts, takes,
                    pool, permits, pageSize, rounds, served, initCalls,
                    startResult, cur, aborted >>
    /\ UNCHANGED << interrupts, rxSeen >>
    /\ lastRead' = NoRead
    /\ unveiled' = 0
    /\ UNCHANGED << rstate, request, peers, bufs, subscribed, lens, fuse, oc >>

\* OwnedDropPush that skips the push.
OwnedDropPushNoBuffer(o) ==
    /\ o \in owned
    /\ o.pc = "live"
    /\ owned' = (owned \ {o})
                  \cup {[pc |-> "dropping", unique |-> o.unique, opcode |-> 0,
                         body |-> <<>>, replies |-> 0, written |-> 0]}
    /\ fin' = FinOf("owned", o, "none", o.replies, 0, "none")
    /\ lastFrame' = NoFrame
    /\ recvResult' = "none" /\ unmountRet' = "none"
    /\ UNCHANGED << phase, startMp, mountpoint, pending, unmounts, takes,
                    pool, permits, pageSize, rounds, served, initCalls,
                    startResult, cur, aborted >>
    /\ UNCHANGED << interrupts, rxSeen >>
    /\ lastRead' = NoRead
    /\ unveiled' = 0
    /\ UNCHANGED << rstate, request, peers, bufs, subscribed, lens, fuse, oc >>

\* Drop for Owned: the buffer goes back to the pool.
OwnedDropPush(o) ==
    /\ o \in owned
    /\ o.pc = "live"
    /\ pool' = pool + 1
    /\ owned' = (owned \ {o})
                  \cup {[pc |-> "dropping", unique |-> o.unique, opcode |-> 0,
                         body |-> <<>>, replies |-> 0, written |-> 0]}
    /\ fin' = FinOf("owned", o, "none", o.replies, 0, "none")
    /\ lastFrame' = NoFrame
    /\ recvResult' = "none" /\ unmountRet' = "none"
    /\ UNCHANGED << phase, startMp, mountpoint, pending, unmounts, takes,
                    permits, pageSize, rounds, served, initCalls,
                    startResult, cur, aborted >>
    /\ UNCHANGED << interrupts, rxSeen >>
    /\ lastRead' = NoRead
    /\ unveiled' = 0
    /\ UNCHANGED << rstate, request, peers, bufs, subscribed, lens, fuse, oc >>

\* OwnedDropRelease that keeps the permit.
OwnedDropReleaseKeepsPermit(o) ==
    /\ o \in owned
    /\ o.pc = "dropping"
    /\ owned' = owned \ {o}
    /\ fin' = [NoFin EXCEPT !.kind = "released", !.unique = o.unique]
    /\ lastFrame' = NoFrame
    /\ recvResult' = "none" /\ unmountRet' = "none"
    /\ UNCHANGED << phase, startMp, mountpoint, pending, unmounts, takes,
                    pool, permits, pageSize, rounds, served, initCalls,
                    startResult, cur, aborted >>
    /\ UNCHANGED << interrupts, rxSeen >>
    /\ lastRead' = NoRead
    /\ unveiled' = 0
    /\ UNCHANGED << rstate, request, peers, bufs, subscribed, lens, fuse, oc >>

\* The Owned's fields are dropped after Drop::drop: the permit is released.
OwnedDropRelease(o) ==
    /\ o \in owned
    /\ o.pc = "dropping"
    /\ permits' = permits + 1
    /\ owned' = owned \ {o}
    /\ fin' = [NoFin EXCEPT !.kind = "released", !.unique = o.unique]
    /\ lastFrame' = NoFrame
    /\ recvResult' = "none" /\ unmountRet' = "none"
    /\ UNCHANGED << phase, startMp, mountpoint, pending, unmounts, takes,
                    pool, pageSize, rounds, served, initCalls, startResult,
                    cur, aborted >>
    /\ UNCHANGED << interrupts, rxSeen >>
    /\ lastRead' = NoRead
    /\ unveiled' = 0
    /\ UNCHANGED << rstate, request, peers, bufs, subscribed, lens, fuse, oc >>

\* ---------------------------------------------------------------- unmount
\* UnmountTake that reads the path and leaves it in the slot.
UnmountTakeKeepsPath ==
    /\ phase = "running"
    /\ IF mountpoint = "Some"
       THEN /\ takes' = takes + 1
            /\ pending' = TRUE
            /\ unmountRet' = "none"
            /\ UNCHANGED mountpoint
       ELSE /\ unmountRet' = "Ok"
            /\ UNCHANGED << mountpoint, takes, pending >>
    /\ lastFrame' = NoFrame /\ fin' = NoFin /\ recvResult' = "none"
    /\ UNCHANGED << phase, startMp, unmounts, pool, permits, pageSize,
                    rounds, served, initCalls, startResult, cur, owned,
                    aborted >>
    /\ UNCHANGED << interrupts, rxSeen >>
    /\ lastRead' = NoRead
    /\ unveiled' = 0
    /\ UNCHANGED << rstate, request, peers, bufs, subscribed, lens, fuse, oc >>

\* Session::unmount_sync, first half: take the slot under the lock. An
\* empty slot makes the call return Ok at once.
UnmountTake ==
    /\ phase = "running"
    /\ IF mountpoint = "Some"
       THEN /\ mountpoint' = "None"
            /\ takes' = takes + 1
            /\ pending' = TRUE
            /\ unmountRet' = "none"
       ELSE /\ unmountRet' = "Ok"
            /\ UNCHANGED << mountpoint, takes, pending >>
    /\ lastFrame' = NoFrame /\ fin' = NoFin /\ recvResult' = "none"
    /\ UNCHANGED << phase, startMp, unmounts, pool, permits, pageSize,
                    rounds, served, initCalls, startResult, cur, owned,
                    aborted >>
    /\ UNCHANGED << interrupts, rxSeen >>
    /\ lastRead' = NoRead
    /\ unveiled' = 0
    /\ UNCHANGED << rstate, request, peers, bufs, subscribed, lens, fuse, oc >>

\* Session::unmount_sync, second half: the helper runs on the taken path
\* and its result is returned.
UnmountHelper(helperOk) ==
    /\ phase = "running"
    /\ pending
    /\ pending' = FALSE
    /\ unmounts' = unmounts + 1
    /\ unmountRet' = IF helperOk THEN "Ok" ELSE "Err"
    /\ lastFrame' = NoFrame /\ fin' = NoFin /\ recvResult' = "none"
    /\ UNCHANGED << phase, startMp, mountpoint, takes, pool, permits,
                    pageSize, rounds, served, initCalls, startResult, cur,
                    owned, aborted >>
    /\ UNCHANGED << interrupts, rxSeen >>
    /\ lastRead' = NoRead
    /\ unveiled' = 0
    /\ UNCHANGED << rstate, request, peers, bufs, subscribed, lens, fuse, oc >>

\* SessionDrop that runs the helper whether or not the slot holds a path.
SessionDropAlwaysUnmounts ==
    /\ phase = "running"
    /\ cur.pc = "idle"
    /\ owned = {}
    /\ ~pending
    /\ phase' = "dropped"
    /\ mountpoint' = "None"
    /\ takes' = IF mountpoint = "Some" THEN takes + 1 ELSE takes
    /\ unmounts' = unmounts + 1
    /\ lastFrame' = NoFrame /\ fin' = NoFin
    /\ recvResult' = "none" /\ unmountRet' = "none"
    /\ UNCHANGED << startMp, pending, pool, permits, pageSize, rounds,
                    served, initCalls, startResult, cur, owned, aborted >>
    /\ UNCHANGED << interrupts, rxSeen >>
    /\ lastRead' = NoRead
    /\ unveiled' = 0
    /\ UNCHANGED << rstate, request, peers, bufs, subscribed, lens, fuse, oc >>

\* Drop for Session, once the endpoint, every Owned and every borrow of the
\* Session are gone.
SessionDrop ==
    /\ phase = "running"
    /\ cur.pc = "idle"
    /\ owned = {}
    /\ ~pending
    /\ phase' = "dropped"
    /\ mountpoint' = "None"
    /\ takes' = IF mountpoint = "Some" THEN takes + 1 ELSE takes
    /\ unmounts' = IF mountpoint = "Some" THEN unmounts + 1 ELSE unmounts
    /\ lastFrame' = NoFrame /\ fin' = NoFin
    /\ recvResult' = "none" /\ unmountRet' = "none"
    /\ UNCHANGED << startMp, pending, pool, permits, pageSize, rounds,
                    served, initCalls, startResult, cur, owned, aborted >>
    /\ UNCHANGED << interrupts, rxSeen >>
    /\ lastRead' = NoRead
    /\ unveiled' = 0
    /\ UNCHANGED << rstate, request, peers, bufs, subscribed, lens, fuse, oc >>

\* ------------------------------------------------------------------- Next
Next ==
    \/ StartDrop
    \/ StartUnmountSync
    \/ \E registered \in BOOLEAN : StartStart(registered)
    \/ HandshakeReadError
    \/ \E m \in HsMessages(rounds + 1) :
          \E choice \in HostInitReplies, outcome \in HandshakeWrites(m) :
             Handshake(m, choice, outcome)
    \/ ReceiveReadError
    \/ \E m \in Requests(RequestUnique) :
          \E outcome \in ReceiveWrites(m) : Receive(m, outcome)
    \/ ReceiveAbort
    \/ \E outcome \in WriteOutcomes : IncomingOp(outcome)
    \/ \E r \in HostReplies, outcome \in WriteOutcomes : HostReply(r, outcome)
    \/ \E errno \in HostErrnos, outcome \in WriteOutcomes :
          HostGenericFail(errno, outcome)
    \/ Interruptible
    \/ RaceCompleted
    \/ (Cardinality(owned) < Cardinality(HostTasks) /\ OwnedCall)
    \/ OwnedAcquire
    \/ OwnedSwap
    \/ \E o \in owned, r \in HostReplies, outcome \in WriteOutcomes :
          OwnedOp(o, r, outcome)
    \/ \E o \in owned : OwnedDropPush(o)
    \/ \E o \in owned : OwnedDropRelease(o)
    \/ UnmountTake
    \/ \E helperOk \in BOOLEAN : UnmountHelper(helperOk)
    \/ SessionDrop

Spec == Init /\ [][Next]_vars

\* --------------------------------------------- interruptible() in isolation
\* The state Start::start leaves behind when the handshake completes at
\* once: a running Session with a full pool.
InitRunning ==
    /\ phase = "running"
    /\ startMp = FALSE
    /\ mountpoint = "Some"
    /\ pending = FALSE
    /\ unmounts = 0
    /\ takes = 0
    /\ pool = SHARED_BUFFERS
    /\ permits = SHARED_BUFFERS
    /\ pageSize \in PageSizes
    /\ rounds = 0
    /\ served = 0
    /\ initCalls = 1
    /\ startResult = "Ok"
    /\ cur = Idle
    /\ owned = {}
    /\ aborted = FALSE
    /\ lastFrame = NoFrame
    /\ fin = NoFin
    /\ recvResult = "none"
    /\ unmountRet = "none"
    /\ interrupts = <<>>
    /\ rxSeen = 0
    /\ lastRead = NoRead
    /\ rstate = NoState
    /\ unveiled = 0
    /\ oc = NoChain
    /\ fuse = NoFuse
    /\ lens = NoBuffers
    /\ subscribed = 0
    /\ bufs = FreshBuffers
    /\ peers = {}
    /\ request = NoRequest

\* The uniques of the requests a running session reads.
RequestUniques == (MaxRounds + 2)..(MaxRounds + 1 + MaxRequests)

\* Reply::interruptible with a sender on the broadcast channel: requests
\* are received and dispatched, handlers race their work against the
\* channel, and uniques are sent on it.
NextRace ==
    \/ \E m \in Requests(RequestUnique) :
          \E outcome \in ReceiveWrites(m) : Receive(m, outcome)
    \/ \E outcome \in WriteOutcomes : IncomingOp(outcome)
    \/ \E r \in HostReplies, outcome \in WriteOutcomes : HostReply(r, outcome)
    \/ Interruptible
    \/ RaceCompleted
    \/ \E outcome \in RaceWrites : RaceRecv(outcome)
    \/ \E u \in RequestUniques : InterruptSend(u)

SpecInterruptible == InitRunning /\ [][NextRace]_vars

\* One Lookup request whose handler races its work against a channel on
\* which more values are sent than it retains.
NextLag ==
    \/ served = 0 /\ Receive(Message(OP_LOOKUP, RequestUnique, <<1, 0>>), "full")
    \/ IncomingOp("full")
    \/ \E r \in HostReplies : HostReply(r, "full")
    \/ Interruptible
    \/ RaceCompleted
    \/ \E outcome \in RaceWrites : RaceRecv(outcome)
    \/ RaceLagged
    \/ \E u \in BurstUniques : InterruptBurst(u)

SpecLag == InitRunning /\ [][NextLag]_vars

\* ------------------------------------------------- the pool near exhaustion
\* The Owned values of SHARED_BUFFERS - 1 earlier requests, all alive.
EarlierOwned ==
    {[pc |-> "live", unique |-> 1000 + i, opcode |-> OP_LOOKUP,
      body |-> <<1, 0>>, replies |-> 0, written |-> 0] : i \in 1..(SHARED_BUFFERS - 1)}

\* A running Session whose host holds EarlierOwned: one buffer and one
\* permit are left.
InitPool ==
    /\ phase = "running"
    /\ startMp = FALSE
    /\ mountpoint = "Some"
    /\ pending = FALSE
    /\ unmounts = 0
    /\ takes = 0
    /\ pool = 1
    /\ permits = 1
    /\ pageSize \in PageSizes
    /\ rounds = 0
    /\ served = 0
    /\ initCalls = 1
    /\ startResult = "Ok"
    /\ cur = Idle
    /\ owned = EarlierOwned
    /\ aborted = FALSE
    /\ lastFrame = NoFrame
    /\ fin = NoFin
    /\ recvResult = "none"
    /\ unmountRet = "none"
    /\ interrupts = <<>>
    /\ rxSeen = 0
    /\ lastRead = NoRead
    /\ rstate = NoState
    /\ unveiled = 0
    /\ oc = NoChain
    /\ fuse = NoFuse
    /\ lens = NoBuffers
    /\ subscribed = 0
    /\ bufs = FreshBuffers
    /\ peers = {}
    /\ request = NoRequest

LiveOwned == {o \in owned : o.pc = "live"}

\* The Owned value the host drops next: the live one of the least unique
\* (the Owned values are interchangeable to the pool), while fewer than
\* MaxDropping drops are under way.
DropCandidates ==
    IF Cardinality(owned \ LiveOwned) >= MaxDropping THEN {}
    ELSE {o \in LiveOwned : \A q \in LiveOwned : o.unique <= q.unique}

\* Lookup requests are received and each is taken with owned(); the host
\* drops its Owned values.
NextPool ==
    \/ Receive(Message(OP_LOOKUP, RequestUnique, <<1, 0>>), "full")
    \/ OwnedCall
    \/ OwnedAcquire
    \/ OwnedSwap
    \/ \E o \in DropCandidates : OwnedDropPush(o)
    \/ \E o \in owned : OwnedDropRelease(o)

\* Session::endpoint may be called any number of times; each Endpoint runs
\* its own receive loop on its own task. What the pool sees of another
\* endpoint is its Incoming::owned calls, at most MaxPeers at a time.
PeerUnchanged ==
    /\ lastFrame' = NoFrame /\ fin' = NoFin
    /\ recvResult' = "none" /\ unmountRet' = "none"
    /\ UNCHANGED << phase, startMp, mountpoint, pending, unmounts, takes,
                    pageSize, rounds, initCalls, startResult, cur, aborted >>
    /\ UNCHANGED << interrupts, rxSeen >>
    /\ lastRead' = NoRead
    /\ unveiled' = 0
    /\ UNCHANGED << rstate, request, bufs, subscribed, lens, fuse, oc >>

\* Another endpoint has received a Lookup request and its dispatcher calls
\* owned() on it.
PeerCall ==
    /\ phase = "running"
    /\ served < MaxRequests
    /\ Cardinality(peers) < MaxPeers
    /\ served' = served + 1
    /\ peers' = peers \cup {[pc |-> "owning", unique |-> RequestUnique]}
    /\ UNCHANGED << pool, permits, owned >>
    /\ PeerUnchanged

\* Its acquire_owned() returns a permit.
PeerAcquire(p) ==
    /\ p \in peers
    /\ p.pc = "owning"
    /\ permits > 0
    /\ permits' = permits - 1
    /\ peers' = (peers \ {p}) \cup {[p EXCEPT !.pc = "acquired"]}
    /\ UNCHANGED << pool, served, owned >>
    /\ PeerUnchanged

\* It pops a pool buffer, swaps it with its endpoint's buffer and builds
\* the Owned.
PeerSwap(p) ==
    /\ p \in peers
    /\ p.pc = "acquired"
    /\ pool > 0
    /\ pool' = pool - 1
    /\ peers' = peers \ {p}
    /\ owned' = owned \cup {[pc |-> "live", unique |-> p.unique,
                             opcode |-> OP_LOOKUP, body |-> <<1, 0>>,
                             replies |-> 0, written |-> 0]}
    /\ UNCHANGED << permits, served >>
    /\ PeerUnchanged

\* SpecPool's steps with owned() calls of other endpoints running beside
\* those of the endpoint the model follows.
NextPeers ==
    \/ NextPool
    \/ PeerCall
    \/ \E p \in peers : PeerAcquire(p)
    \/ \E p \in peers : PeerSwap(p)

SpecPeers == InitPool /\ [][NextPeers]_vars

\* The runtime resumes a suspended acquire once a permit is free and runs
\* owned() and the drop glue to their ends; the host drops every Owned.
SpecPool ==
    /\ InitPool
    /\ [][NextPool]_vars
    /\ WF_vars(OwnedAcquire)
    /\ WF_vars(OwnedSwap)
    /\ WF_vars(\E o \in DropCandidates : OwnedDropPush(o))
    /\ WF_vars(\E o \in owned : OwnedDropRelease(o))

\* ------------------------------------------------- the typed reply methods
\* What a terminal reply method leaves alone: a Reply holds a shared
\* reference to the Session and writes to its fd only.
SessionUnchanged ==
    UNCHANGED << phase, startMp, mountpoint, pending, unmounts, takes, pool,
                 permits, pageSize, rounds, served, initCalls, startResult,
                 owned, aborted, interrupts, rxSeen, request, peers, bufs, subscribed, lens, fuse, oc >>

\* bytes_of a little-endian u64 below 2^31.
LE64(n) == LE32(n) \o Zeros(4)

\* make_entry as bytes: EntryOut { nodeid, generation 0, entry and attr
\* validity (one second each here), Attrs with the inode number }.
EntryOutBytes(ino) ==
    LE64(ino) \o LE64(0) \o LE64(1) \o LE64(1) \o LE32(0) \o LE32(0)
    \o LE64(ino) \o Zeros(80)

\* The not_found_for entry: Ino::NULL, Ttl as given, zeroed Attrs.
NullEntryOutBytes ==
    LE64(0) \o LE64(0) \o LE64(1) \o LE64(0) \o LE32(0) \o LE32(0)
    \o Zeros(88)

\* open_flags_bits that passes the accumulated flags through.
OpenFlagsBitsAll(flags) == BitsValue(flags)

\* open_flags_bits: flags & KEEP_CACHE & CACHE_DIR.
OpenFlagsBits(flags) == BitsValue((flags \cap {KEEP_CACHE}) \cap {CACHE_DIR})

\* proto::OpenOut { fh, open_flags, padding } as bytes.
OpenOutBytes(handle, flags) ==
    LE64(handle) \o LE32(OpenFlagsBits(flags)) \o LE32(0)

\* The inode numbers and file handles the host answers with.
HostInos == {2}
HostHandles == {0, 7}

\* The operations that implement ReplyKnown.
KnownOps == {OP_LOOKUP, OP_MKDIR, OP_SYMLINK, OP_LINK, OP_CREATE}

\* The frame of ReplyKnown::known: one EntryOut; Create's known is
\* known_with_handle with handle 0.
KnownFrame(unique, opcode, state, ino, outcome) ==
    IF opcode = OP_CREATE
    THEN SessionOk(unique,
                   ChainTail(<< EntryOutBytes(ino),
                                OpenOutBytes(0, state.flags) >>), outcome)
    ELSE SessionOk(unique, ChainTail(<< EntryOutBytes(ino) >>), outcome)

\* The state between the reply of known() or known_with_handle() and the
\* unveil call: the Reply is consumed, its Done is held.
DoneState(frame) == [kind |-> "done", sends |-> Sends(frame)]

\* ReplyKnown::known up to `let done = reply.single(..)`.
Known(ino, outcome) ==
    /\ phase = "running"
    /\ cur.pc = "handler"
    /\ cur.opcode \in KnownOps
    /\ LET f == KnownFrame(cur.unique, cur.opcode, rstate, ino, outcome)
       IN  /\ lastFrame' = f
           /\ rstate' = DoneState(f)
    /\ cur' = [cur EXCEPT !.pc = "unveil"]
    /\ fin' = NoFin
    /\ recvResult' = "none" /\ unmountRet' = "none"
    /\ lastRead' = NoRead
    /\ unveiled' = 0
    /\ SessionUnchanged

\* ReplyOpen::known_with_handle up to `let done = reply.chain(..)`.
KnownWithHandle(ino, handle, outcome) ==
    /\ phase = "running"
    /\ cur.pc = "handler"
    /\ cur.opcode = OP_CREATE
    /\ LET f == SessionOk(cur.unique,
                          ChainTail(<< EntryOutBytes(ino),
                                       OpenOutBytes(handle, rstate.flags) >>),
                          outcome)
       IN  /\ lastFrame' = f
           /\ rstate' = DoneState(f)
    /\ cur' = [cur EXCEPT !.pc = "unveil"]
    /\ fin' = NoFin
    /\ recvResult' = "none" /\ unmountRet' = "none"
    /\ lastRead' = NoRead
    /\ unveiled' = 0
    /\ SessionUnchanged

\* KnownUnveil that returns done without calling unveil.
KnownUnveilSkipped ==
    /\ phase = "running"
    /\ cur.pc = "unveil"
    /\ unveiled' = 0
    /\ fin' = FinOf("req", cur, "Continue", rstate.sends, 1, "Ok")
    /\ recvResult' = "Continue"
    /\ cur' = Idle
    /\ rstate' = NoState
    /\ lastFrame' = NoFrame
    /\ unmountRet' = "none"
    /\ lastRead' = NoRead
    /\ SessionUnchanged

\* The rest of known() and known_with_handle(): entry.unveil(), then done
\* is returned; the dispatcher completes and receive returns Continue.
KnownUnveil ==
    /\ phase = "running"
    /\ cur.pc = "unveil"
    /\ unveiled' = 1
    /\ fin' = FinOf("req", cur, "Continue", rstate.sends, 1, "Ok")
    /\ recvResult' = "Continue"
    /\ cur' = Idle
    /\ rstate' = NoState
    /\ lastFrame' = NoFrame
    /\ unmountRet' = "none"
    /\ lastRead' = NoRead
    /\ SessionUnchanged

\* A terminal reply that sends frame f and ends the handler, in a call
\* that made `unveils` unveil calls before it and leaves `state` with the
\* handler.
ReplyEndsWith(f, unveils, state) ==
    /\ lastFrame' = f
    /\ fin' = FinOf("req", cur, "Continue", Sends(f), 1, "Ok")
    /\ recvResult' = "Continue"
    /\ cur' = Idle
    /\ rstate' = state
    /\ unmountRet' = "none"
    /\ lastRead' = NoRead
    /\ unveiled' = unveils
    /\ SessionUnchanged

\* A terminal reply that sends frame f and is all of the handler.
ReplyEnds(f) == ReplyEndsWith(f, 0, NoState)

\* ReplyNotFound for Lookup: fail(ENOENT).
NotFound(outcome) ==
    /\ phase = "running"
    /\ cur.pc = "handler"
    /\ cur.opcode = OP_LOOKUP
    /\ ReplyEnds(SessionFail(cur.unique, ENOENT, outcome))

\* ReplyFound for Lookup: the negative entry, cached for ttl.
NotFoundFor(outcome) ==
    /\ phase = "running"
    /\ cur.pc = "handler"
    /\ cur.opcode = OP_LOOKUP
    /\ ReplyEnds(SessionOk(cur.unique, ChainTail(<< NullEntryOutBytes >>),
                           outcome))

\* Reply::fail on a typed Reply.
ReplyFail(errno, outcome) ==
    /\ phase = "running"
    /\ cur.pc = "handler"
    /\ rstate.kind \in {"unit", "open"}
         \/ (rstate.kind = "xattr" /\ ~rstate.found)
    /\ ReplyEnds(SessionFail(cur.unique, errno, outcome))

\* ReplyOpen::ok_with_handle (ReplyOk for Open is ok_with_handle(0)).
OkWithHandle(handle, outcome) ==
    /\ phase = "running"
    /\ cur.pc = "handler"
    /\ cur.opcode = OP_OPEN
    /\ ReplyEnds(SessionOk(cur.unique,
                           ChainTail(<< OpenOutBytes(handle, rstate.flags) >>),
                           outcome))

\* force_direct_io, non_seekable, is_stream: reply.state |= flag.
SetOpenFlag(flag) ==
    /\ phase = "running"
    /\ cur.pc = "handler"
    /\ rstate.kind = "open"
    /\ rstate' = [rstate EXCEPT !.flags = @ \cup {flag}]
    /\ lastFrame' = NoFrame /\ fin' = NoFin
    /\ recvResult' = "none" /\ unmountRet' = "none"
    /\ lastRead' = NoRead
    /\ unveiled' = 0
    /\ UNCHANGED cur
    /\ SessionUnchanged

ForceDirectIo == SetOpenFlag(DIRECT_IO)
NonSeekable == SetOpenFlag(NONSEEKABLE)
IsStream == SetOpenFlag(STREAM)

\* The xattr values the host gathers, as fragments: an empty value and one
\* of three bytes in two fragments.
XattrValues == {<< <<>> >>, << <<1, 2>>, <<3>> >>}

\* The sizes a Getxattr request names.
XattrSizes == {0, 2, 3, 8}

\* XattrGatherFrame without the ERANGE arm.
XattrGatherFrameNoRange(unique, state, fragments, outcome) ==
    IF state.size = 0
    THEN SessionOk(unique, ChainTail(<< LE32(SumLen(fragments)) \o LE32(0) >>),
                   outcome)
    ELSE SessionOk(unique, ChainTail(fragments), outcome)

\* ReplyGather for Getxattr: the size inquiry is answered requires_size,
\* a too small buffer buffer_too_small, else the fragments are chained.
XattrGatherFrame(unique, state, fragments, outcome) ==
    LET size == SumLen(fragments)
    IN  IF state.size = 0
        THEN SessionOk(unique, ChainTail(<< LE32(size) \o LE32(0) >>), outcome)
        ELSE IF state.size < size
        THEN SessionFail(unique, ERANGE, outcome)
        ELSE SessionOk(unique, ChainTail(fragments), outcome)

\* The handler finds the attribute's value, as fragments.
XattrLookup(fragments) ==
    /\ phase = "running"
    /\ cur.pc = "handler"
    /\ cur.opcode = OP_GETXATTR
    /\ ~rstate.found
    /\ rstate' = [rstate EXCEPT !.found = TRUE, !.value = fragments]
    /\ lastFrame' = NoFrame /\ fin' = NoFin
    /\ recvResult' = "none" /\ unmountRet' = "none"
    /\ lastRead' = NoRead
    /\ unveiled' = 0
    /\ UNCHANGED cur
    /\ SessionUnchanged

\* reply.gather(fragments) with the value found.
XattrGather(outcome) ==
    /\ phase = "running"
    /\ cur.pc = "handler"
    /\ cur.opcode = OP_GETXATTR
    /\ rstate.found
    /\ ReplyEnds(XattrGatherFrame(cur.unique, rstate, rstate.value, outcome))

\* What the kernel delivers to a session whose handlers answer with the
\* typed reply methods.
TypedRequests(u) ==
    {Message(OP_LOOKUP, u, <<97, 0>>),
     Message(OP_MKDIR, u, Zeros(8) \o <<97, 0>>),
     Message(OP_SYMLINK, u, <<97, 0, 98, 0>>),
     Message(OP_LINK, u, LE64(1) \o <<97, 0>>),
     Message(OP_CREATE, u, Zeros(16) \o <<97, 0>>),
     Message(OP_OPEN, u, Zeros(8))}
    \cup {Message(OP_GETXATTR, u, LE32(size) \o Zeros(4) \o <<97, 0>>) :
            size \in XattrSizes}

NextReplies ==
    \/ \E m \in TypedRequests(RequestUnique) : Receive(m, "full")
    \/ \E outcome \in WriteOutcomes : IncomingOp(outcome)
    \/ \E ino \in HostInos, outcome \in WriteOutcomes : Known(ino, outcome)
    \/ \E ino \in HostInos, handle \in HostHandles, outcome \in WriteOutcomes :
          KnownWithHandle(ino, handle, outcome)
    \/ KnownUnveil
    \/ \E outcome \in WriteOutcomes : NotFound(outcome)
    \/ \E outcome \in WriteOutcomes : NotFoundFor(outcome)
    \/ \E errno \in HostErrnos, outcome \in WriteOutcomes :
          ReplyFail(errno, outcome)
    \/ \E handle \in HostHandles, outcome \in WriteOutcomes :
          OkWithHandle(handle, outcome)
    \/ ForceDirectIo
    \/ NonSeekable
    \/ IsStream
    \/ \E fragments \in XattrValues : XattrLookup(fragments)
    \/ \E outcome \in WriteOutcomes : XattrGather(outcome)

SpecReplies == InitRunning /\ [][NextReplies]_vars

\* -------------------------------------------------- OutputChain in isolation
\* The segment groups handed to tail() and preceded(): none, one segment,
\* two segments of which one is empty.
SegmentGroups == {<<>>, << <<1>> >>, << <<2, 3>>, <<>> >>}

\* What building and iterating a chain leaves alone.
ChainUnchanged ==
    UNCHANGED << phase, startMp, mountpoint, pending, unmounts, takes, pool,
                 permits, pageSize, rounds, served, initCalls, startResult,
                 cur, owned, aborted, lastFrame, fin, recvResult, unmountRet,
                 interrupts, rxSeen, lastRead, rstate, unveiled,
                 request,
                 peers,
                 bufs,
                 subscribed,
                 lens,
                 fuse >>

\* OutputChain::empty()
ChainNewEmpty ==
    /\ oc.pc = "none"
    /\ oc' = [NoChain EXCEPT !.pc = "built", !.args = << <<>> >>,
                             !.chain = ChainEmpty]
    /\ ChainUnchanged

\* OutputChain::tail(xs)
ChainNewTail(xs) ==
    /\ oc.pc = "none"
    /\ oc' = [NoChain EXCEPT !.pc = "built", !.args = << xs >>,
                             !.chain = ChainTail(xs)]
    /\ ChainUnchanged

\* chain.preceded(ys): args keeps the groups in call order.
ChainPrecede(ys) ==
    /\ oc.pc = "built"
    /\ Len(oc.args) < MaxChain
    /\ oc' = [oc EXCEPT !.args = Append(@, ys),
                        !.chain = ChainPreceded(oc.chain, ys)]
    /\ ChainUnchanged

\* chain.iter(): OutputChainIter(Some(self)).
ChainIter ==
    /\ oc.pc = "built"
    /\ oc' = [oc EXCEPT !.pc = "iter", !.iter = oc.chain]
    /\ ChainUnchanged

\* OutputChainIter::next: the group at the front, then on to `then`; None
\* when no chain is left.
ChainIterNext ==
    /\ oc.pc = "iter"
    /\ oc' = IF oc.iter = <<>>
             THEN [oc EXCEPT !.pc = "iterated"]
             ELSE [oc EXCEPT !.seen = Append(@, Head(oc.iter)),
                             !.iter = Tail(oc.iter)]
    /\ ChainUnchanged

NextChain ==
    \/ ChainNewEmpty
    \/ \E xs \in SegmentGroups : ChainNewTail(xs)
    \/ \E ys \in SegmentGroups : ChainPrecede(ys)
    \/ ChainIter
    \/ ChainIterNext

SpecChain == InitRunning /\ [][NextChain]_vars

\* ------------------------------------------------------- buffered Readdir
\* The names "." and "..".
Dot == <<46>>
DotDot == <<46, 46>>

\* Names the handler offers: ".", "..", and names of 1, 8 and 9 bytes.
EntryNames ==
    {Dot, DotDot, <<97>>, <<97, 98, 99, 100, 101, 102, 103, 104>>,
     <<97, 98, 99, 100, 101, 102, 103, 104, 105>>}

\* ReadIn.size of the Readdir requests, and what is left to write
\* (BufMut::remaining_mut) in the empty buffers the handler passes.
ReadSizes == {16, 64, 320}
BufferCapacities == {48, 4096}

\* proto::ReadIn { fh, offset, size, read_flags, lock_owner, flags, padding }.
ReadInBytes(offset, size) ==
    LE64(1) \o LE64(offset) \o LE32(size) \o Zeros(20)

ReaddirRequests(u) ==
    {Message(op, u, ReadInBytes(0, size)) :
        op \in {OP_READDIR, OP_READDIRPLUS}, size \in ReadSizes}

\* dirent_pad_bytes that pads nothing.
DirentPadBytesNone(entry_len) == 0

\* dirent_pad_bytes: what rounds entry_len up to the record alignment.
DirentPadBytes(entry_len) ==
    LET align == Pow2(DIRENT_ALIGNMENT_BITS)
    IN  ((entry_len + align - 1) \div align) * align - entry_len

\* entry_header_len in entry().
EntryHeaderLen(state) ==
    IF state.is_plus THEN DirentPlusSize ELSE DirentSize

\* record_len in entry().
EntryRecordLen(state, name) ==
    EntryHeaderLen(state) + Len(name)
        + DirentPadBytes(EntryHeaderLen(state) + Len(name))

\* EntryRemaining that looks at the buffer's capacity only.
EntryRemainingNoMaxRead(state) == state.capacity - Len(state.buffer)

\* `remaining` in entry(): the lesser of what the buffer can still take and
\* what max_read still allows.
EntryRemaining(state) ==
    LET room == state.capacity - Len(state.buffer)
        allowed == state.max_read - Len(state.buffer)
    IN  IF room < allowed THEN room ELSE allowed

\* EntryUnveils for every name.
EntryUnveilsAll(state, name) == state.is_plus

\* Whether entry() unveils the inode of an entry it appends.
EntryUnveils(state, name) ==
    state.is_plus /\ name # Dot /\ name # DotDot

\* proto::Dirent { ino, off, namelen, entry_type } (S_IFREG >> 12 is 8).
DirentBytes(e) ==
    LE64(e.ino) \o LE64(e.offset) \o LE32(Len(e.name)) \o LE32(8)

\* EntryRecord whose Dirent carries no offset.
EntryRecordNoOffset(state, e) ==
    (IF state.is_plus THEN EntryOutBytes(e.ino) ELSE <<>>)
    \o DirentBytes([e EXCEPT !.offset = 0]) \o e.name
    \o Zeros(DirentPadBytes(EntryHeaderLen(state) + Len(e.name)))

\* The bytes entry() appends: the header (in plus mode an EntryOut before
\* the Dirent), the name, the zero padding.
EntryRecord(state, e) ==
    (IF state.is_plus THEN EntryOutBytes(e.ino) ELSE <<>>)
    \o DirentBytes(e) \o e.name
    \o Zeros(DirentPadBytes(EntryHeaderLen(state) + Len(e.name)))

\* EntryOverflowFrame that ends the reply whatever the buffer holds.
EntryOverflowFrameAlwaysEnds(unique, state, outcome) ==
    SessionOk(unique, ChainTail(<< state.buffer >>), outcome)

\* What entry() sends when the record does not fit: ENOBUFS when nothing
\* was written yet, else reply.end() with the buffer as it is.
EntryOverflowFrame(unique, state, outcome) ==
    IF state.buffer = <<>>
    THEN SessionFail(unique, ENOBUFS, outcome)
    ELSE SessionOk(unique, ChainTail(<< state.buffer >>), outcome)

\* What entry() leaves with the handler when it ended the reply itself:
\* Interruptible::Interrupted, the entry appended before that or not.
InterruptedState(appended) == [kind |-> "interrupted", appended |-> appended]

\* ReplyBuffered::buffered for Readdir, with an empty buffer that can take
\* `capacity` bytes.
Buffered(capacity) ==
    /\ phase = "running"
    /\ cur.pc = "handler"
    /\ rstate.kind = "readdir"
    /\ ~rstate.buffered
    /\ rstate' = [rstate EXCEPT !.buffered = TRUE, !.capacity = capacity]
    /\ lastFrame' = NoFrame /\ fin' = NoFin
    /\ recvResult' = "none" /\ unmountRet' = "none"
    /\ lastRead' = NoRead
    /\ unveiled' = 0
    /\ UNCHANGED cur
    /\ SessionUnchanged

\* The handler takes the next entry of the directory: each entry carries
\* the offset at which a listing resumes behind it.
DirOffer(name) ==
    /\ phase = "running"
    /\ cur.pc = "handler"
    /\ rstate.kind = "readdir"
    /\ rstate.buffered
    /\ rstate.offered = NoEntry
    /\ rstate.count < MaxEntries
    /\ rstate' = [rstate EXCEPT !.offered =
                    [name |-> name, ino |-> 2 + rstate.count,
                     offset |-> U32At(cur.body, 9) + rstate.count + 1]]
    /\ lastFrame' = NoFrame /\ fin' = NoFin
    /\ recvResult' = "none" /\ unmountRet' = "none"
    /\ lastRead' = NoRead
    /\ unveiled' = 0
    /\ UNCHANGED cur
    /\ SessionUnchanged

\* EntryStaysOpen that asks for room for an entry header only.
EntryStaysOpenNoAlignment(state, left) == left >= EntryHeaderLen(state)

\* The last test of entry(): with `left` bytes of room after the record,
\* the reply stays open if an entry header and one alignment unit fit.
EntryStaysOpen(state, left) ==
    left >= EntryHeaderLen(state) + Pow2(DIRENT_ALIGNMENT_BITS)

\* ReplyEntries::entry for BufferedReaddir on the entry taken.
DirEntry(outcome) ==
    /\ phase = "running"
    /\ cur.pc = "handler"
    /\ rstate.kind = "readdir"
    /\ rstate.buffered
    /\ rstate.offered # NoEntry
    /\ LET e == rstate.offered
           record_len == EntryRecordLen(rstate, e.name)
           remaining == EntryRemaining(rstate)
           buffer == rstate.buffer \o EntryRecord(rstate, e)
           unveils == IF EntryUnveils(rstate, e.name) THEN 1 ELSE 0
       IN  IF remaining < record_len
           THEN ReplyEndsWith(
                    EntryOverflowFrame(cur.unique, rstate, outcome), 0,
                    InterruptedState(FALSE))
           ELSE IF EntryStaysOpen(rstate, remaining - record_len)
           THEN /\ rstate' = [rstate EXCEPT !.buffer = buffer,
                                            !.count = @ + 1,
                                            !.offered = NoEntry]
                /\ unveiled' = unveils
                /\ lastFrame' = NoFrame /\ fin' = NoFin
                /\ recvResult' = "none" /\ unmountRet' = "none"
                /\ lastRead' = NoRead
                /\ UNCHANGED cur
                /\ SessionUnchanged
           ELSE ReplyEndsWith(
                    SessionOk(cur.unique, ChainTail(<< buffer >>), outcome),
                    unveils, InterruptedState(TRUE))

\* ReplyEntries::end: the buffer goes out as the reply's payload.
DirEnd(outcome) ==
    /\ phase = "running"
    /\ cur.pc = "handler"
    /\ rstate.kind = "readdir"
    /\ rstate.buffered
    /\ rstate.offered = NoEntry
    /\ ReplyEnds(SessionOk(cur.unique, ChainTail(<< rstate.buffer >>),
                           outcome))

\* A Readdir payload read back: the records it holds, front first, each
\* with the fields of its Dirent, its name and its whole length.
RECURSIVE DirRecords(_, _)
DirRecords(bytes, is_plus) ==
    IF bytes = <<>> THEN <<>>
    ELSE LET hdr == IF is_plus THEN DirentPlusSize ELSE DirentSize
             dirent == hdr - DirentSize
             namelen == U32At(bytes, dirent + 17)
             len == hdr + namelen + DirentPadBytes(hdr + namelen)
         IN  << [ino |-> U32At(bytes, dirent + 1),
                 off |-> U32At(bytes, dirent + 9),
                 name |-> SubSeq(bytes, hdr + 1, hdr + namelen),
                 len |-> len] >>
             \o DirRecords(Drop(bytes, len), is_plus)

NextReaddir ==
    \/ \E m \in ReaddirRequests(RequestUnique) : Receive(m, "full")
    \/ IncomingOp("full")
    \/ \E capacity \in BufferCapacities : Buffered(capacity)
    \/ \E name \in EntryNames : DirOffer(name)
    \/ \E outcome \in WriteOutcomes : DirEntry(outcome)
    \/ \E outcome \in WriteOutcomes : DirEnd(outcome)

SpecReaddir == InitRunning /\ [][NextReaddir]_vars

\* ----------------------------------------------------------------- claims
\* C1: every request Endpoint::receive reads after the handshake gets at
\* most one reply frame carrying its unique, and exactly one unless its
\* opcode is Forget, BatchForget, Destroy or Interrupt, which get none.
\* Stated for the requests whose header parsed, when receive has returned
\* and any Owned made for the request is dropped.
C1_OneReplyPerRequest ==
    (fin.kind \in {"req", "owned"} /\ fin.ret \in {"Continue", "Break", "none"})
        => IF fin.opcode \in {OP_FORGET, OP_BATCH_FORGET, OP_DESTROY,
                              OP_INTERRUPT}
           THEN fin.replies = 0
           ELSE fin.replies = 1

\* C2: every frame Session::send emits has a len field of 16 plus the
\* total payload length, the write counts as a success exactly when that
\* many bytes were written, and the frame's unique is the request's.
C2_FrameLength ==
    lastFrame.result # "none"
        => /\ lastFrame.len = OUT_HEADER_SIZE + Len(lastFrame.payload)
           /\ (lastFrame.result = "Ok") <=> (lastFrame.written = lastFrame.len)
           /\ fin.kind \in {"hs", "req", "op"}
           /\ lastFrame.unique = fin.unique

\* An Owned::op reply made of several segments went out whole.
C2_Witness ==
    /\ fin.kind = "op"
    /\ lastFrame.result = "Ok"
    /\ lastFrame.payload = <<1, 2, 3>>
    /\ lastFrame.len = 19

\* C3 as stated: in every state of a started Session the available permits
\* equal the pool length.
C3_PermitsEqualPool == phase = "running" => permits = pool

\* C3 amended: the available permits never exceed the pool length; the
\* buffers missing from the pool are those of the live Owned values; the
\* permits missing are held by the Owned values (live or being dropped) and
\* by an owned() call past its acquire; permits and pool length are equal
\* whenever no owned() call and no Owned drop is in progress.
C3_PoolAccounting ==
    phase = "running"
        => LET live == Cardinality({o \in owned : o.pc = "live"})
               dropping == Cardinality({o \in owned : o.pc = "dropping"})
               acquiring == IF cur.pc = "acquired" THEN 1 ELSE 0
           IN  /\ permits <= pool
               /\ pool = SHARED_BUFFERS - live
               /\ permits = SHARED_BUFFERS - live - dropping - acquiring
               /\ (dropping = 0 /\ acquiring = 0) => permits = pool

\* An Owned is between its buffer push and its permit release.
C3_Witness ==
    /\ phase = "running"
    /\ \E o \in owned : o.pc = "dropping"
    /\ permits = SHARED_BUFFERS - 1
    /\ pool = SHARED_BUFFERS

\* C4 as stated: once a started Session is dropped, the unmount helper has
\* run exactly once.
C4_DropUnmountsOnce == phase = "dropped" => unmounts = 1

\* C4 amended: once a started Session is dropped its slot has been emptied
\* exactly once and the unmount helper has run exactly once, unless receive
\* saw the fd writable and emptied the slot, in which case it never ran.
C4_DropUnmountsUnlessAborted ==
    phase = "dropped"
        => /\ takes = 1
           /\ mountpoint = "None"
           /\ unmounts <= 1
           /\ unmounts = 0 => aborted

\* A Session dropped after receive detected the abort: no helper ran.
C4_Witness == phase = "dropped" /\ aborted /\ unmounts = 0 /\ served > 0

\* C5: the Session's mountpoint slot yields its path at most once and the
\* unmount helper runs at most once, however unmount_sync, abort detection
\* and drop interleave; an unmount_sync call that finds the slot empty
\* changes nothing and returns Ok.
C5_UnmountLatch ==
    /\ [](takes <= 1 /\ unmounts <= 1
           /\ (mountpoint # "Unset" => unmounts <= takes))
    /\ [][(mountpoint = "None" /\ unmountRet' # "none" /\ pending' = pending)
            => (unmountRet' = "Ok" /\ unmounts' = unmounts /\ takes' = takes
                /\ mountpoint' = "None")]_vars

\* One unmount_sync call holds the path, receive has detected the abort,
\* and a second unmount_sync call has just returned Ok without the helper.
C5_Witness ==
    /\ pending
    /\ aborted
    /\ takes = 1
    /\ unmounts = 0
    /\ unmountRet = "Ok"

C8_NonInitReplied ==
    (fin.kind = "hs" /\ fin.opcode \in KnownOpcodes \ {OP_INIT}
       /\ fin.ret \notin {"Truncated", "BadLength"})
        => /\ startResult = "ProtocolInit"
           /\ fin.replies = 1
           /\ lastFrame.error < 0
           /\ initCalls = 0

\* C8 amended: such a message makes start fail with ProtocolInit without
\* any reply being sent, the init handler never invoked.
C8_NonInitFails ==
    (fin.kind = "hs" /\ fin.opcode \in KnownOpcodes \ {OP_INIT}
       /\ fin.ret \notin {"Truncated", "BadLength"})
        => /\ startResult = "ProtocolInit"
           /\ phase = "failed"
           /\ fin.replies = 0
           /\ lastFrame = NoFrame
           /\ fin.ran = 0
           /\ initCalls = 0

\* The first message was a Lookup: start failed and the Session it had
\* built was dropped, which unmounted.
C8_Witness ==
    /\ fin.kind = "hs"
    /\ fin.opcode = OP_LOOKUP
    /\ fin.unique = 1
    /\ startResult = "ProtocolInit"
    /\ unmounts = 1

\* C9: a request whose opcode number is unknown, or known but not
\* dispatched, gets exactly one reply, with error -ENOSYS, and receive
\* returns Continue.
C9_UnhandledOpcodeENOSYS ==
    (fin.kind = "req" /\ fin.ret \notin {"Truncated", "BadLength"}
       /\ fin.opcode \notin Dispatched \cup {OP_DESTROY})
        => /\ fin.replies = 1
           /\ lastFrame.error = -ENOSYS
           /\ lastFrame.unique = fin.unique
           /\ recvResult = "Continue"

\* C10: when the body of a dispatched request fails to parse, Incoming::op
\* and Owned::op send exactly one reply, with error -EIO and the request's
\* unique, the handler does not run, and receive returns Continue with the
\* session still running.
C10_ParseFailureEIO ==
    (fin.kind \in {"req", "op"} /\ fin.parse \in {"Truncated", "BadLength"})
        => /\ fin.replies = 1
           /\ lastFrame.error = -EIO
           /\ lastFrame.payload = <<>>
           /\ lastFrame.unique = fin.unique
           /\ fin.ran = 0
           /\ phase = "running"
           /\ fin.kind = "req" => (recvResult = "Continue" /\ cur = Idle)

\* Owned::op met a truncated Forget body and its EIO reply failed to write.
C10_Witness ==
    /\ fin.kind = "op"
    /\ fin.opcode = OP_FORGET
    /\ fin.parse = "Truncated"
    /\ lastFrame.error = -EIO
    /\ lastFrame.result = "Io"

\* C11: every Interrupt request Endpoint::receive reads has the unique it
\* targets sent on the session's interrupt broadcast channel.
C11_InterruptBroadcast ==
    (fin.kind = "req" /\ fin.opcode = OP_INTERRUPT
       /\ fin.ret \notin {"Truncated", "BadLength", "BadOpcode"})
        => \E i \in 1..Len(interrupts) : interrupts[i] = U32At(fin.body, 1)

\* C12: Reply::interruptible resolves to Completed, with no frame written
\* and the Reply back in the handler's hands, or to Interrupted, after
\* exactly one -EINTR frame for its own unique, and the latter only on
\* receiving its own unique from the channel; receiving any other unique
\* writes nothing and leaves the race running.
C12_Interruptible ==
    /\ [](fin.kind = "race"
            => /\ fin.ret \in {"Completed", "Interrupted"}
               /\ fin.ret = "Completed"
                    => /\ lastFrame = NoFrame
                       /\ fin.replies = 0
                       /\ cur.pc = "handler"
                       /\ cur.unique = fin.unique
               /\ fin.ret = "Interrupted"
                    => /\ fin.replies = 1
                       /\ lastFrame.error = -EINTR
                       /\ lastFrame.len = OUT_HEADER_SIZE
                       /\ lastFrame.unique = fin.unique
                       /\ rxSeen >= 1
                       /\ interrupts[rxSeen] = fin.unique
                       /\ cur = Idle)
    /\ [][(cur.pc = "racing" /\ rxSeen' = rxSeen + 1
             /\ interrupts[rxSeen + 1] # cur.unique)
            => (lastFrame' = NoFrame /\ fin' = NoFin /\ cur' = cur)]_vars

\* A race skipped a broadcast for another unique, then met its own and
\* wrote the EINTR reply.
C12_Witness ==
    /\ fin.kind = "race"
    /\ fin.ret = "Interrupted"
    /\ rxSeen = 2
    /\ interrupts[1] # fin.unique
    /\ lastFrame.error = -EINTR
    /\ lastFrame.result = "Ok"

\* C13: when Endpoint::receive finds the session fd writable it empties the
\* mountpoint slot and returns Break, having read no request, dispatched
\* nothing, written nothing and run no unmount helper; the drop of the
\* Session that follows does not run the helper either.
C13_AbortSkipsUnmount ==
    /\ [](fin.kind = "abort"
            => /\ mountpoint = "None"
               /\ recvResult = "Break"
               /\ lastFrame = NoFrame
               /\ cur = Idle)
    /\ [][fin'.kind = "abort"
            => (served' = served /\ cur' = cur /\ owned' = owned
                /\ unmounts' = unmounts)]_vars
    /\ [][(aborted /\ phase = "running" /\ phase' = "dropped")
            => unmounts' = unmounts]_vars

\* The first receive of a session detected the abort and the Session was
\* then dropped: the helper never ran.
C13_Witness ==
    /\ phase = "dropped"
    /\ aborted
    /\ served = 0
    /\ takes = 1
    /\ unmounts = 0

\* C14: Endpoint::receive returns Break on a Destroy request and writes no
\* reply for it; on every other request whose header it parsed it returns
\* Continue, whether the request was dispatched (handled in place, or
\* handed off as an Owned) or answered ENOSYS by receive itself.
C14_BreakOnlyOnDestroy ==
    /\ (fin.kind = "req"
          /\ fin.ret \notin {"Truncated", "BadLength", "BadOpcode"})
         => IF fin.opcode = OP_DESTROY
            THEN /\ recvResult = "Break"
                 /\ fin.replies = 0
                 /\ lastFrame = NoFrame
            ELSE /\ recvResult = "Continue"
                 /\ fin.opcode \notin Dispatched
                      => (fin.replies = 1 /\ lastFrame.error = -ENOSYS)
    /\ fin.kind = "handoff" => recvResult = "Continue"
    /\ (fin.kind = "race" /\ fin.ret = "Interrupted")
         => recvResult = "Continue"

\* A Destroy read after an earlier request was served: Break, no frame.
C14_Witness ==
    /\ fin.kind = "req"
    /\ fin.opcode = OP_DESTROY
    /\ recvResult = "Break"
    /\ served = 2
    /\ lastFrame = NoFrame

\* C15: in a running Session with no Owned in existence (none alive, none
\* part-way through its drop) and no owned() call in progress, the
\* available permits and the pool length are both SHARED_BUFFERS, after
\* the handshake returned its buffer and after any owned()/drop history.
C15_QuiescentPool ==
    (phase = "running" /\ owned = {} /\ cur.pc \notin {"owning", "acquired"})
        => (permits = SHARED_BUFFERS /\ pool = SHARED_BUFFERS)

\* The last Owned of a session that took every request with owned() has
\* just released its permit.
C15_Witness ==
    /\ phase = "running"
    /\ fin.kind = "released"
    /\ owned = {}
    /\ cur = Idle
    /\ served = MaxRequests
    /\ permits = SHARED_BUFFERS
    /\ pool = SHARED_BUFFERS

\* C16: with SHARED_BUFFERS Owned values alive no permit is available, so
\* an owned() call stays suspended and takes no buffer; the drop of an
\* Owned pushes one buffer onto the pool and then releases one permit; and,
\* the host dropping its Owned values, every owned() call returns.
C16_PoolExhaustion ==
    /\ [](Cardinality(LiveOwned) = SHARED_BUFFERS
            => (permits = 0 /\ pool = 0))
    /\ [][(cur.pc = "owning" /\ permits = 0)
            => (cur'.pc = "owning" /\ pool' >= pool /\ permits' >= permits
                /\ LiveOwned' \subseteq LiveOwned)]_vars
    /\ [][fin'.kind = "owned"
            => (pool' = pool + 1 /\ permits' = permits)]_vars
    /\ [][fin'.kind = "released"
            => (permits' = permits + 1 /\ pool' = pool)]_vars
    /\ (cur.pc \in {"owning", "acquired"}) ~> (fin.kind = "handoff")

\* An owned() call is suspended with no permit left while the drop of one
\* of the SHARED_BUFFERS Owned values has pushed its buffer back and not
\* yet released its permit.
C16_Witness ==
    /\ cur.pc = "owning"
    /\ permits = 0
    /\ pool = 1
    /\ Cardinality(LiveOwned) = SHARED_BUFFERS - 1
    /\ Cardinality(owned) = SHARED_BUFFERS

\* C17: a Start dropped without start() runs the unmount helper exactly
\* once; Start::unmount_sync runs it once and the drop of the consumed
\* Start not at all; once start() has taken the path the Start holds none
\* and its drop runs no helper: every run is then one of the Session's,
\* for a path taken from the Session's slot.
C17_StartDrop ==
    /\ phase = "unmounted" => unmounts = 1
    /\ phase \notin {"start", "unmounted"}
         => /\ ~startMp
            /\ unmounts <= takes
            /\ mountpoint = "Unset" => unmounts = 0

\* A Start was dropped with its mountpoint still in it.
C17_Witness == phase = "unmounted" /\ startMp /\ unmounts = 1

\* C18: a frame made by failing a request with errno e carries error -e
\* when e > 0 and -ENOMSG when e <= 0, no payload (len 16) and the
\* request's unique.
C18_FailErrno ==
    /\ lastFrame.call = "fail"
         => /\ lastFrame.error = IF lastFrame.errno > 0 THEN -lastFrame.errno
                                 ELSE -ENOMSG
            /\ lastFrame.error < 0
            /\ lastFrame.len = OUT_HEADER_SIZE
            /\ lastFrame.payload = <<>>
            /\ lastFrame.unique = fin.unique
    /\ \A e \in {-ENOENT, -1, 0} :
          SessionFail(served, e, "full").error = -ENOMSG

\* A handler failed its request with errno 0 and ENOMSG went out.
C18_Witness ==
    /\ fin.kind = "req"
    /\ fin.ran = 1
    /\ lastFrame.call = "fail"
    /\ lastFrame.errno = 0
    /\ lastFrame.error = -ENOMSG
    /\ lastFrame.result = "Ok"

\* C19: when the write of a reply to a request fails (I/O error or short
\* write), receive still returns Continue, nothing but the frame differs
\* from a successful reply, and the endpoint is ready for the next request.
C19_WriteErrorsSwallowed ==
    (phase = "running" /\ fin.kind \in {"req", "race"}
       /\ lastFrame.result \in {"Io", "ShortWrite"})
        => /\ recvResult = "Continue"
           /\ fin.ret \in {"Continue", "Interrupted"}
           /\ cur = Idle
           /\ ~aborted

\* A handler's own reply was written short and receive returned Continue.
C19_Witness ==
    /\ fin.kind = "req"
    /\ fin.ran = 1
    /\ lastFrame.result = "ShortWrite"
    /\ recvResult = "Continue"
    /\ phase = "running"

\* C20: a message whose InHeader.len differs from the number of bytes read
\* is answered with one -EIO reply and receive returns Continue.
C20_BadLengthEIO ==
    (lastRead.nread >= HEADER_END /\ lastRead.len # lastRead.nread)
        => /\ recvResult = "Continue"
           /\ fin.replies = 1
           /\ lastFrame.error = -EIO

\* C21: when the init handler answers ok, the one frame of the handshake
\* carries a 64-byte InitOut with major 7, minor 32, flags exactly the
\* flags the kernel's Init offered that are in the supported mask (so no
\* flag the kernel did not offer and no flag outside the mask), max_pages
\* the number of buffer pages and max_write that many pages less 80 bytes.
C21_InitOut ==
    (fin.kind = "hs" /\ fin.ret = "Done" /\ lastFrame.call = "ok")
        => LET p == lastFrame.payload
               offered == BitSet(U32At(fin.body, 13))
               advertised == BitSet(U32At(p, 13))
               max_pages == p[29] + 256 * p[30]
           IN  /\ Len(p) = 64
               /\ lastFrame.error = 0
               /\ U32At(p, 1) = 7
               /\ U32At(p, 5) = 32
               /\ advertised = offered \cap InitFlagsSupported
               /\ advertised \subseteq offered
               /\ max_pages = MIN_READ_SIZE \div pageSize
               /\ U32At(p, 21) = max_pages * pageSize - 80

\* The kernel offered POSIX_LOCKS (not in the mask), PARALLEL_DIROPS and a
\* bit InitFlags does not name; only PARALLEL_DIROPS was advertised.
C21_Witness ==
    /\ fin.kind = "hs"
    /\ fin.ret = "Done"
    /\ lastFrame.call = "ok"
    /\ U32At(fin.body, 13) = 67371010
    /\ U32At(lastFrame.payload, 13) = 262144
    /\ U32At(lastFrame.payload, 21) = 8112

\* C22: a request answered with known() or known_with_handle() has exactly
\* one unveil call, made after its EntryOut reply was sent (whatever the
\* write returned); a step makes at most one unveil call and makes it only
\* in that place, so a request ended by a failure reply or a not_found
\* variant has none.
C22_KnownUnveilsOnce ==
    [][/\ unveiled' \in {0, 1}
       /\ unveiled' = 1
            => /\ cur.pc = "unveil"
               /\ cur.opcode \in KnownOps
               /\ lastFrame.unique = cur.unique
               /\ lastFrame.call = "ok"
               /\ lastFrame.error = 0
               /\ Len(lastFrame.payload) \in {128, 144}
               /\ U32At(lastFrame.payload, 1) \in HostInos
       /\ (cur.pc = "handler" /\ cur'.pc = "unveil")
            => /\ unveiled' = 0
               /\ lastFrame'.result # "none"
       /\ (cur.pc = "unveil" /\ cur' # cur)
            => /\ unveiled' = 1
               /\ cur' = Idle
               /\ fin'.kind = "req"
               /\ fin'.unique = cur.unique
       /\ (cur.pc = "handler" /\ cur'.pc = "idle") => unveiled' = 0
      ]_vars

\* A Mkdir answered with known() has ended: one frame, then the unveil.
C22_Witness ==
    /\ unveiled = 1
    /\ fin.kind = "req"
    /\ fin.opcode = OP_MKDIR
    /\ fin.replies = 1
    /\ recvResult = "Continue"

\* C28: a Getxattr whose handler gathers a value of actual_size bytes gets
\* exactly one of three replies: a GetxattrOut naming actual_size and no
\* value byte when the request's size is 0; -ERANGE when the size is
\* positive and below actual_size; else the value's bytes and nothing more.
C28_GetxattrSizes ==
    [][(cur.pc = "handler" /\ cur.opcode = OP_GETXATTR /\ rstate.found
          /\ cur'.pc = "idle")
         => LET size == U32At(cur.body, 1)
                actual_size == SumLen(rstate.value)
                f == lastFrame'
            IN  /\ fin'.replies = 1
                /\ f.unique = cur.unique
                /\ IF size = 0
                   THEN /\ f.error = 0
                        /\ f.payload = LE32(actual_size) \o <<0, 0, 0, 0>>
                   ELSE IF size < actual_size
                   THEN /\ f.error = -ERANGE
                        /\ f.payload = <<>>
                   ELSE /\ f.error = 0
                        /\ f.payload = ConcatAll(rstate.value)
      ]_vars

\* A request for at most two bytes of a three-byte value was refused.
C28_Witness ==
    /\ fin.kind = "req"
    /\ fin.opcode = OP_GETXATTR
    /\ U32At(fin.body, 1) = 2
    /\ lastFrame.error = -ERANGE
    /\ lastFrame.result = "Ok"

\* C29: the open_flags of the OpenOut that ok_with_handle and
\* known_with_handle emit has DIRECT_IO set exactly when force_direct_io
\* was called on the reply, NONSEEKABLE exactly when non_seekable was, and
\* STREAM exactly when is_stream was.
C29_OpenFlags ==
    [][(cur.pc = "handler" /\ rstate.kind = "open"
          /\ cur'.pc \in {"idle", "unveil"} /\ lastFrame'.call = "ok")
         => LET p == lastFrame'.payload
                open_flags == BitSet(U32At(p, Len(p) - 7))
            IN  \A flag \in {DIRECT_IO, NONSEEKABLE, STREAM} :
                   flag \in open_flags <=> flag \in rstate.flags
      ]_vars

\* C30: a chain built as tail(xs) and then preceded(ys) iterates to ys
\* followed by xs; after any number of preceded() calls the iteration
\* yields the groups front to back, the most recently prepended first, and
\* with them every segment exactly once, in the order Session::send
\* writes them.
C30_ChainOrder ==
    oc.pc = "iterated"
        => LET n == Len(oc.args)
               backwards == [i \in 1..n |-> oc.args[n + 1 - i]]
           IN  /\ oc.seen = backwards
               /\ ConcatAll(oc.seen) = ConcatAll(backwards)
               /\ ChainSegments(oc.chain) = ConcatAll(oc.seen)
               /\ n = 2 => ConcatAll(oc.seen) = oc.args[2] \o oc.args[1]

\* tail(<<[1]>>) preceded by <<[2, 3], []>> was iterated to its end.
C30_Witness ==
    /\ oc.pc = "iterated"
    /\ oc.args = << << <<1>> >>, << <<2, 3>>, <<>> >> >>
    /\ ConcatAll(oc.seen) = << <<2, 3>>, <<>>, <<1>> >>

\* C23: entry() makes one unveil call for each record it appends in
\* ReaddirPlus mode whose name is neither "." nor "..", and none otherwise:
\* none for "." or "..", none for an entry it withholds or refuses, none in
\* plain Readdir mode.
C23_UnveilPerRecord ==
    [][(cur.pc = "handler" /\ rstate.kind = "readdir")
         => LET after == IF rstate'.kind = "readdir" THEN rstate'.buffer
                         ELSE IF lastFrame'.call = "ok"
                         THEN lastFrame'.payload ELSE rstate.buffer
                appended == after # rstate.buffer
                name == rstate.offered.name
            IN  unveiled' = IF /\ appended
                               /\ cur.opcode = OP_READDIRPLUS
                               /\ name # <<46>>
                               /\ name # <<46, 46>>
                            THEN 1 ELSE 0
      ]_vars

\* The second record of a ReaddirPlus reply was appended and unveiled in
\* the call that filled the reply.
C23_Witness ==
    /\ unveiled = 1
    /\ fin.kind = "req"
    /\ fin.opcode = OP_READDIRPLUS
    /\ Len(lastFrame.payload) = 320

\* C24: when the first entry offered does not fit, its padded record being
\* longer than the lesser of the buffer's capacity and max_read, the request
\* gets exactly one reply, a failure with -ENOBUFS, and no record goes out.
C24_FirstEntryTooBig ==
    [][(/\ cur.pc = "handler"
        /\ rstate.kind = "readdir"
        /\ rstate.offered # NoEntry
        /\ rstate.buffer = <<>>
        /\ LET hdr == IF cur.opcode = OP_READDIRPLUS THEN 152 ELSE 24
               padded == ((hdr + Len(rstate.offered.name) + 7) \div 8) * 8
               max_read == U32At(cur.body, 17)
               limit == IF rstate.capacity < max_read
                        THEN rstate.capacity ELSE max_read
           IN  padded > limit)
         => /\ lastFrame'.error = -ENOBUFS
            /\ lastFrame'.payload = <<>>
            /\ lastFrame'.unique = cur.unique
            /\ fin'.kind = "req"
            /\ fin'.unique = cur.unique
            /\ fin'.replies = 1
            /\ cur' = Idle
      ]_vars

\* A ReaddirPlus request allowing 16 bytes was refused on its first entry.
C24_Witness ==
    /\ rstate = InterruptedState(FALSE)
    /\ fin.opcode = OP_READDIRPLUS
    /\ U32At(fin.body, 17) = 16
    /\ lastFrame.error = -ENOBUFS
    /\ lastFrame.payload = <<>>

\* C25: the buffer of a buffered Readdir reply, and with it the payload of
\* the reply, is never longer than the request's max_read, whatever the
\* buffer could take.
C25_PayloadWithinMaxRead ==
    /\ rstate.kind = "readdir"
         => Len(rstate.buffer) <= U32At(cur.body, 17)
    /\ (fin.kind = "req" /\ fin.opcode \in {OP_READDIR, OP_READDIRPLUS}
          /\ fin.parse = "Ok")
         => Len(lastFrame.payload) <= U32At(fin.body, 17)

\* A Readdir reply was filled to its max_read of 64 bytes in a buffer that
\* could take more.
C25_Witness ==
    /\ fin.kind = "req"
    /\ fin.opcode = OP_READDIR
    /\ U32At(fin.body, 17) = 64
    /\ lastFrame.call = "ok"
    /\ Len(lastFrame.payload) = 64

\* C26: each record entry() appends is the header (24 bytes, in plus mode
\* 152), the name's bytes and 0 to 7 zero bytes, a multiple of 8 in all, put
\* behind what the buffer held; so the buffer's length stays a multiple
\* of 8.
C26_RecordsAligned ==
    [][(cur.pc = "handler" /\ rstate.kind = "readdir")
         => LET after == IF rstate'.kind = "readdir" THEN rstate'.buffer
                         ELSE IF lastFrame'.call = "ok"
                         THEN lastFrame'.payload ELSE rstate.buffer
                old == Len(rstate.buffer)
                rec == SubSeq(after, old + 1, Len(after))
                hdr == IF cur.opcode = OP_READDIRPLUS THEN 152 ELSE 24
                name == rstate.offered.name
                n == Len(name)
            IN  /\ Len(after) % 8 = 0
                /\ after # rstate.buffer
                     => /\ SubSeq(after, 1, old) = rstate.buffer
                        /\ Len(rec) % 8 = 0
                        /\ Len(rec) - hdr - n \in 0..7
                        /\ U32At(rec, hdr - 7) = n
                        /\ SubSeq(rec, hdr + 1, hdr + n) = name
                        /\ \A i \in 1..n : name[i] # 0
                        /\ \A i \in (hdr + n + 1)..Len(rec) : rec[i] = 0
      ]_vars

\* A buffer holds a 32-byte record (name of 1 byte) and a 40-byte record
\* (name of 9 bytes).
C26_Witness ==
    /\ rstate.kind = "readdir"
    /\ ~rstate.is_plus
    /\ rstate.count = 2
    /\ Len(rstate.buffer) = 72

\* C27: an offered entry whose padded record fits in what the buffer and
\* max_read leave is appended; one that does not fit when a record is
\* already written is withheld, and the reply ends successfully with the
\* records written so far as its payload, in the order offered, the last
\* of them carrying the offset a listing resumes from to start at the
\* withheld entry.
C27_WithheldEntry ==
    [][(cur.pc = "handler" /\ rstate.kind = "readdir"
          /\ rstate.offered # NoEntry)
         => LET hdr == IF cur.opcode = OP_READDIRPLUS THEN 152 ELSE 24
                padded == ((hdr + Len(rstate.offered.name) + 7) \div 8) * 8
                max_read == U32At(cur.body, 17)
                limit == IF rstate.capacity < max_read
                         THEN rstate.capacity ELSE max_read
                fits == padded <= limit - Len(rstate.buffer)
                after == IF rstate'.kind = "readdir" THEN rstate'.buffer
                         ELSE IF lastFrame'.call = "ok"
                         THEN lastFrame'.payload ELSE rstate.buffer
                recs == DirRecords(lastFrame'.payload,
                                   cur.opcode = OP_READDIRPLUS)
            IN  /\ fits => /\ Len(after) = Len(rstate.buffer) + padded
                           /\ SubSeq(after, 1, Len(rstate.buffer))
                                = rstate.buffer
                /\ (~fits /\ rstate.buffer # <<>>)
                     => /\ lastFrame'.call = "ok"
                        /\ lastFrame'.error = 0
                        /\ lastFrame'.unique = cur.unique
                        /\ lastFrame'.payload = rstate.buffer
                        /\ fin'.kind = "req"
                        /\ fin'.replies = 1
                        /\ cur' = Idle
                        /\ Len(recs) = rstate.count
                        /\ \A i \in 1..Len(recs) :
                              /\ recs[i].off = U32At(cur.body, 9) + i
                              /\ recs[i].ino = 1 + i
                        /\ recs[Len(recs)].off + 1 = rstate.offered.offset
      ]_vars

\* A Readdir reply allowing 64 bytes went out with its one 32-byte record
\* when an entry with a 40-byte record was offered next.
C27_Witness ==
    /\ rstate = InterruptedState(FALSE)
    /\ fin.opcode = OP_READDIR
    /\ U32At(fin.body, 17) = 64
    /\ lastFrame.call = "ok"
    /\ lastFrame.result = "Ok"
    /\ Len(lastFrame.payload) = 32

\* ------------------------------------------------- proto::Request::try_from
\* size_of the `In` struct that opens the body of each opcode; 0 for the
\* opcodes whose body! arm has no prefix.
PrefixLen(opcode) ==
    CASE opcode \in {1, 5, 6, 10, 11, 17, 24, 38, 41} -> 0
      [] opcode \in {2, 9, 12, 13, 14, 21, 22, 23, 27, 34, 36, 42} -> 8
      [] opcode \in {3, 8, 20, 26, 30, 35, 37, 45} -> 16
      [] opcode \in {18, 25, 29, 40, 46} -> 24
      [] opcode \in {39, 43} -> 32
      [] opcode \in {15, 16, 28, 44} -> 40
      [] opcode \in {31, 32, 33} -> 48
      [] opcode = 47 -> 56
      [] opcode = 4 -> 88

\* How many NUL-terminated strings the body! arm of an opcode lists.
CstrCount(opcode) ==
    CASE opcode \in {1, 8, 9, 10, 11, 22, 24, 35} -> 1
      [] opcode \in {6, 12, 21, 45} -> 2
      [] OTHER -> 0

\* `data where len == size_field`: index of the first byte of the prefix
\* field that names the data length (WriteIn.size, IoctlIn.in_size); 0 for
\* the opcodes without data.
DataLenAt(opcode) ==
    CASE opcode = 16 -> 17
      [] opcode = 39 -> 25
      [] OTHER -> 0

\* split_from_bytes::<T>: at most size_of::<T>() bytes are split off and
\* must make up a whole T.
SplitFromBytes(size, bytes) ==
    LET taken == IF Len(bytes) < size THEN Len(bytes) ELSE size
    IN  IF taken # size THEN [err |-> "Truncated", rest |-> <<>>]
        ELSE [err |-> "Ok", rest |-> Drop(bytes, taken)]

\* cstr_from_bytes
CstrFromBytes(bytes, is_last) ==
    LET nul == FirstNul(bytes)
    IN  IF ~is_last /\ nul = 0 THEN [err |-> "Truncated", rest |-> <<>>]
        ELSE LET cut == IF is_last THEN Len(bytes) ELSE nul
             IN  IF ~IsCStr(SubSeq(bytes, 1, cut))
                 THEN [err |-> "BadLength", rest |-> <<>>]
                 ELSE [err |-> "Ok", rest |-> Drop(bytes, cut)]

\* build_body! over the strings of a body: every one but the last is cut at
\* its NUL, the last takes all the bytes left.
RECURSIVE BuildCstrs(_, _)
BuildCstrs(count, bytes) ==
    IF count = 0 THEN [err |-> "Ok", rest |-> bytes]
    ELSE LET r == CstrFromBytes(bytes, count = 1)
         IN  IF r.err # "Ok" THEN r ELSE BuildCstrs(count - 1, r.rest)

\* The arm of `match opcode`: the error, or the bytes the body left over.
RequestBodyFrom(opcode, bytes) ==
    LET prefix == SplitFromBytes(PrefixLen(opcode), bytes)
    IN  IF prefix.err # "Ok" THEN prefix
        ELSE IF DataLenAt(opcode) # 0
        THEN IF U32At(bytes, DataLenAt(opcode)) # Len(prefix.rest)
             THEN [err |-> "BadLength", rest |-> <<>>]
             ELSE [err |-> "Ok", rest |-> <<>>]
        ELSE IF opcode = OP_BATCH_FORGET
        THEN IF Len(prefix.rest) % 16 # 0
             THEN [err |-> "Truncated", rest |-> <<>>]
             ELSE IF U32At(bytes, 1) # Len(prefix.rest) \div 16
             THEN [err |-> "BadLength", rest |-> <<>>]
             ELSE [err |-> "Ok", rest |-> <<>>]
        ELSE BuildCstrs(CstrCount(opcode), prefix.rest)

\* The last statement of try_from with the emptiness test left out.
RequestTryFromKeepsTrailing(m) ==
    IF m.nread < HEADER_END THEN "Truncated"
    ELSE IF m.len # m.nread THEN "BadLength"
    ELSE IF m.opcode \notin KnownOpcodes THEN "BadOpcode"
    ELSE RequestBodyFrom(m.opcode, m.body).err

\* Request::try_from: "Ok" when a Request is constructed, or the FuseError.
RequestTryFrom(m) ==
    IF m.nread < HEADER_END THEN "Truncated"
    ELSE IF m.len # m.nread THEN "BadLength"
    ELSE IF m.opcode \notin KnownOpcodes THEN "BadOpcode"
    ELSE LET body == RequestBodyFrom(m.opcode, m.body)
         IN  IF body.err # "Ok" THEN body.err
             ELSE IF body.rest = <<>> THEN "Ok" ELSE "BadLength"

\* Byte strings handed to try_from: bodies that are empty, a prefix alone, a
\* prefix with one or two names, names without their NUL, names followed by
\* more bytes, a WriteIn naming two bytes of data, a BatchForgetIn naming
\* one ForgetOne.
TryFromBodies ==
    { <<>>, <<0>>, <<97>>, <<97, 0>>, <<97, 0, 0>>, <<97, 0, 98>>,
      <<97, 0, 98, 0>>, <<97, 0, 98, 0, 99, 0>>,
      Zeros(4), Zeros(8), Zeros(8) \o <<97, 0>>, Zeros(8) \o <<97>>,
      Zeros(8) \o <<97, 0, 98, 0>>, Zeros(16), Zeros(24),
      LE32(1) \o Zeros(4), LE32(1) \o Zeros(20), LE32(1) \o Zeros(28),
      Zeros(16) \o LE32(2) \o Zeros(20),
      Zeros(16) \o LE32(2) \o Zeros(20) \o <<1, 2>>,
      Zeros(16) \o LE32(2) \o Zeros(20) \o <<1, 2, 3>> }

TryFromOpcodes ==
    { OP_LOOKUP, OP_FORGET, 3, OP_SYMLINK, OP_MKDIR, 12, OP_LINK, 16,
      OP_STATFS, OP_BATCH_FORGET } \cup UnknownOpcodes

\* What a read may hand over: whole messages, a header whose len names more
\* or fewer bytes than were read, and fewer bytes than a header.
TryFromInputs ==
    LET whole == { Message(op, 1, body) :
                       op \in TryFromOpcodes, body \in TryFromBodies }
    IN  whole
        \cup { [m EXCEPT !.len = m.nread + d] : m \in whole, d \in {-1, 1} }
        \cup { [nread |-> n, len |-> n, opcode |-> op, unique |-> 1,
                body |-> <<>>] : n \in {0, HEADER_END - 1},
                                 op \in {OP_STATFS} }

RequestUnchanged ==
    UNCHANGED << phase, startMp, mountpoint, pending, unmounts, takes, pool,
                 permits, pageSize, rounds, served, initCalls, startResult,
                 cur, owned, aborted, lastFrame, fin, recvResult, unmountRet,
                 interrupts, rxSeen, lastRead, rstate, unveiled, peers, bufs, subscribed, lens, fuse, oc >>

\* A caller obtains bytes to parse.
RequestBytes(m) ==
    /\ request.pc # "bytes"
    /\ request' = [pc |-> "bytes", bytes |-> m, result |-> "none"]
    /\ RequestUnchanged

\* The caller hands them to Request::try_from.
RequestParse ==
    /\ request.pc = "bytes"
    /\ request' = [request EXCEPT !.pc = "parsed",
                                  !.result = RequestTryFrom(request.bytes)]
    /\ RequestUnchanged

NextRequest ==
    \/ \E m \in TryFromInputs : RequestBytes(m)
    \/ RequestParse

SpecRequest == InitRunning /\ [][NextRequest]_vars

\* The body of a message is exactly the fields of its opcode's RequestBody
\* variant: the prefix struct, then either the data or the ForgetOne
\* records it counts, or the NUL-terminated strings, with nothing after.
RECURSIVE CstrsExactly(_, _)
CstrsExactly(count, bytes) ==
    IF count = 0 THEN bytes = <<>>
    ELSE \E k \in 1..Len(bytes) :
            /\ bytes[k] = 0
            /\ \A j \in 1..(k - 1) : bytes[j] # 0
            /\ CstrsExactly(count - 1, SubSeq(bytes, k + 1, Len(bytes)))

BodyConsumed(opcode, bytes) ==
    /\ Len(bytes) >= PrefixLen(opcode)
    /\ LET after == Len(bytes) - PrefixLen(opcode)
       IN  CASE DataLenAt(opcode) # 0 ->
                    after = U32At(bytes, DataLenAt(opcode))
             [] opcode = OP_BATCH_FORGET -> after = 16 * U32At(bytes, 1)
             [] OTHER ->
                    CstrsExactly(CstrCount(opcode),
                                 SubSeq(bytes, PrefixLen(opcode) + 1,
                                        Len(bytes)))

\* C31: Request::try_from constructs a Request only when the header's len
\* equals the number of bytes, the opcode is a known one and the body of
\* that opcode takes up every byte after the header; otherwise it returns
\* Truncated, BadLength or BadOpcode.
C31_TryFromContract ==
    request.pc = "parsed" =>
        LET m == request.bytes
        IN  /\ request.result \in {"Ok", "Truncated", "BadLength", "BadOpcode"}
            /\ request.result = "Ok" =>
                   /\ m.nread >= HEADER_END
                   /\ m.len = m.nread
                   /\ m.opcode \in KnownOpcodes
                   /\ BodyConsumed(m.opcode, m.body)

\* A Link message whose body has a name after its LinkIn has been parsed
\* and refused.
C31_Witness ==
    /\ request.pc = "parsed"
    /\ request.bytes.opcode = OP_LINK
    /\ request.bytes.len = request.bytes.nread
    /\ Len(request.bytes.body) > PrefixLen(OP_LINK)
    /\ request.result = "BadLength"

\* owned() calls that hold a permit and have not yet popped their buffer.
Acquired ==
    Cardinality({p \in peers : p.pc = "acquired"})
        + (IF cur.pc = "acquired" THEN 1 ELSE 0)

\* C32: whatever the interleaving of owned() calls and Owned drops, the
\* available permits never exceed the pool length and the pool holds a
\* buffer for every owned() call that has acquired its permit, so the pop
\* after the acquire finds one.
C32_PermitFindsBuffer ==
    /\ permits <= pool
    /\ pool >= Acquired
    /\ permits + Acquired <= pool

\* Two owned() calls hold a permit each and neither has popped; no permit
\* is left.
C32_Witness ==
    /\ cur.pc = "acquired"
    /\ \E p \in peers : p.pc = "acquired"
    /\ permits = 0
    /\ pool = 2

\* C33: for a request taken with Incoming::owned, at most one reply frame
\* carrying its unique is written to the session fd, however many times
\* Owned::op is called on the Owned before it is dropped.
C33_OneFramePerOwned == \A o \in owned : o.written <= 1

\* ------------------------------------------------- buffers of Owned requests
BuffersUnchanged ==
    UNCHANGED << phase, startMp, mountpoint, pending, unmounts, takes, pool,
                 permits, pageSize, rounds, served, initCalls, startResult,
                 cur, owned, aborted, lastFrame, fin, recvResult, unmountRet,
                 interrupts, rxSeen, lastRead, rstate, unveiled, request,
                 peers, subscribed, lens, fuse, oc >>

HeaderOf(m) == [len |-> m.len, opcode |-> m.opcode, unique |-> m.unique]

\* read(fd, buffer): the message overwrites the start of the buffer, the
\* bytes after it stay as they were.
ReadInto(buffer, m) ==
    [header |-> HeaderOf(m),
     body |-> m.body \o SubSeq(buffer.body, Len(m.body) + 1, MaxBody)]

BufferRequests(u) ==
    { Message(OP_LOOKUP, u, <<1, 0>>), Message(OP_LOOKUP, u, <<2, 3, 0>>),
      Message(OP_STATFS, u, <<>>) }

\* Endpoint::receive up to the dispatcher call: read into local_buffer,
\* copy the header out of it, hand the dispatcher an Incoming that borrows
\* local_buffer. `received` remembers what the kernel sent.
BufReceive(m) ==
    /\ bufs.incoming.pc = "idle"
    /\ bufs.reads < MaxReads
    /\ LET image == ReadInto(bufs.mem[bufs.local_buffer], m)
       IN  bufs' = [bufs EXCEPT
                      !.mem[bufs.local_buffer] = image,
                      !.incoming = [pc |-> "dispatch", header |-> image.header,
                                    received |-> m],
                      !.reads = bufs.reads + 1,
                      !.op = NoOp]
    /\ BuffersUnchanged

\* The dispatcher serves the request in place (Incoming::op) and returns.
BufDone ==
    /\ bufs.incoming.pc = "dispatch"
    /\ bufs' = [bufs EXCEPT !.incoming = NoIncoming, !.op = NoOp]
    /\ BuffersUnchanged

\* BufOwned that leaves local_buffer in place and gives the Owned the same
\* buffer.
BufOwnedKeepsLocal ==
    /\ bufs.incoming.pc = "dispatch"
    /\ bufs.buffers # <<>>
    /\ bufs' = [bufs EXCEPT
                  !.buffers = SubSeq(bufs.buffers, 1, Len(bufs.buffers) - 1),
                  !.owned = bufs.owned
                      \cup {[buffer |-> bufs.local_buffer,
                             header |-> bufs.incoming.header,
                             received |-> bufs.incoming.received]},
                  !.incoming = NoIncoming,
                  !.op = NoOp]
    /\ BuffersUnchanged

\* Incoming::owned once it holds its permit: pop the pool's last buffer,
\* mem::replace it into local_buffer, and build the Owned from the buffer
\* that was there and the Incoming's header.
BufOwned ==
    /\ bufs.incoming.pc = "dispatch"
    /\ bufs.buffers # <<>>
    /\ bufs' = [bufs EXCEPT
                  !.buffers = SubSeq(bufs.buffers, 1, Len(bufs.buffers) - 1),
                  !.local_buffer = bufs.buffers[Len(bufs.buffers)],
                  !.owned = bufs.owned
                      \cup {[buffer |-> bufs.local_buffer,
                             header |-> bufs.incoming.header,
                             received |-> bufs.incoming.received]},
                  !.incoming = NoIncoming,
                  !.op = NoOp]
    /\ BuffersUnchanged

\* The bytes try_op parses for an Owned: bytes[HEADER_END..header.len] of
\* its buffer, with the header it holds.
OwnedBody(o) ==
    SubSeq(bufs.mem[o.buffer].body, 1, o.header.len - HEADER_END)

\* Owned::op
BufOp(o) ==
    /\ o \in bufs.owned
    /\ bufs' = [bufs EXCEPT
                  !.op = [pc |-> "parsed", unique |-> o.header.unique,
                          body |-> OwnedBody(o),
                          received |-> o.received.body]]
    /\ BuffersUnchanged

\* Drop for Owned: the buffer goes back onto the pool.
BufDrop(o) ==
    /\ o \in bufs.owned
    /\ bufs' = [bufs EXCEPT
                  !.buffers = Append(bufs.buffers, o.buffer),
                  !.owned = bufs.owned \ {o},
                  !.op = NoOp]
    /\ BuffersUnchanged

NextBuffers ==
    \/ \E m \in BufferRequests(bufs.reads + 1) : BufReceive(m)
    \/ BufDone
    \/ BufOwned
    \/ \E o \in bufs.owned : BufOp(o)
    \/ \E o \in bufs.owned : BufDrop(o)

SpecBuffers == InitRunning /\ [][NextBuffers]_vars

\* C34: the Owned that owned() returns holds the buffer the request was
\* read into and a copy of its header; the endpoint's local buffer is then
\* another buffer, the one popped from the pool; and whatever the endpoint
\* receives later, Owned::op parses the bytes the kernel sent for that
\* request.
C34_OwnedKeepsRequest ==
    /\ [](\A o \in bufs.owned :
            /\ o.header = HeaderOf(o.received)
            /\ OwnedBody(o) = o.received.body
            /\ o.buffer # bufs.local_buffer
            /\ \A i \in 1..Len(bufs.buffers) : bufs.buffers[i] # o.buffer)
    /\ [](bufs.op.pc = "parsed" => bufs.op.body = bufs.op.received)
    /\ [][(bufs'.owned \ bufs.owned # {})
            => /\ bufs'.local_buffer # bufs.local_buffer
               /\ bufs'.local_buffer = bufs.buffers[Len(bufs.buffers)]
               /\ bufs'.owned = bufs.owned
                      \cup {[buffer |-> bufs.local_buffer,
                             header |-> bufs.incoming.header,
                             received |-> bufs.incoming.received]}
               /\ bufs.mem[bufs.local_buffer].header
                      = HeaderOf(bufs.incoming.received)]_vars

\* Owned::op has parsed the first request after the endpoint read two
\* more into its local buffer.
C34_Witness ==
    /\ bufs.op.pc = "parsed"
    /\ bufs.op.unique = 1
    /\ bufs.op.body # <<>>
    /\ bufs.reads = 3
    /\ bufs.incoming.pc = "dispatch"

\* C35: whenever Start::start has returned an error, the mount the Start
\* recorded has been unmounted exactly once.
C35_StartErrorUnmounts ==
    startResult \notin {"none", "Ok"} => unmounts = 1

\* C36: a unique broadcast before interruptible() subscribed, or one the
\* channel dropped because the receiver fell more than
\* INTERRUPT_BROADCAST_CAPACITY values behind, is never observed by the
\* wrapper: an EINTR reply is made only for the request's own unique read
\* from a position after the subscription and still retained; the lag
\* error moves the receiver to the oldest retained value, writes nothing
\* and leaves the race running; and when the wrapped future completes the
\* handler has the Reply back, with nothing written, and its terminal reply
\* is the request's one send.
C36_MissedInterrupts ==
    /\ []((fin.kind = "race" /\ fin.ret = "Interrupted")
            => /\ rxSeen > subscribed
               /\ interrupts[rxSeen] = fin.unique
               /\ Len(interrupts) - (rxSeen - 1) <= INTERRUPT_BROADCAST_CAPACITY
               /\ lastFrame.error = -EINTR
               /\ lastFrame.unique = fin.unique)
    /\ []((fin.kind = "race" /\ fin.ret = "Completed")
            => (lastFrame = NoFrame /\ cur.pc = "handler"
                /\ cur.unique = fin.unique))
    /\ [][cur.pc = "racing" => rxSeen' >= rxSeen]_vars
    /\ [][(cur.pc = "handler" /\ cur'.pc = "racing")
            => (rxSeen' = Len(interrupts) /\ subscribed' = rxSeen')]_vars
    /\ [][(cur.pc = "racing"
             /\ Len(interrupts) - rxSeen > INTERRUPT_BROADCAST_CAPACITY
             /\ rxSeen' # rxSeen)
            => /\ rxSeen' = Len(interrupts) - INTERRUPT_BROADCAST_CAPACITY
               /\ lastFrame' = NoFrame
               /\ fin' = NoFin
               /\ cur' = cur]_vars
    /\ [][(cur.pc = "handler" /\ fin'.kind = "req")
            => (fin'.replies = 1 /\ fin'.unique = cur.unique
                /\ lastFrame'.unique = cur.unique)]_vars

\* The request's own unique was sent after the subscription and dropped by
\* the channel before the wrapper read it; the wrapper lagged, the wrapped
\* future then completed and the handler replied.
C36_Witness ==
    /\ fin.kind = "req"
    /\ fin.replies = 1
    /\ lastFrame.result = "Ok"
    /\ lastFrame.error = 0
    /\ rxSeen = Len(interrupts) - INTERRUPT_BROADCAST_CAPACITY
    /\ \E i \in (subscribed + 1)..rxSeen : interrupts[i] = fin.unique

\* C37: when entry() has appended a record, it returns Completed, the
\* reply still open and nothing sent, only if the room left under the
\* lesser of the buffer's capacity and max_read is at least an entry header
\* plus 8 bytes; otherwise entry() itself sends the buffer, the new record
\* included, as the successful final reply, and the handler is left with a
\* Done: the reply takes no further entry() or end().
C37_EntryClosesWhenFull ==
    [][(cur.pc = "handler" /\ rstate.kind = "readdir"
          /\ rstate.offered # NoEntry)
         => LET hdr == IF cur.opcode = OP_READDIRPLUS THEN 152 ELSE 24
                padded == ((hdr + Len(rstate.offered.name) + 7) \div 8) * 8
                max_read == U32At(cur.body, 17)
                limit == IF rstate.capacity < max_read
                         THEN rstate.capacity ELSE max_read
                left == limit - Len(rstate.buffer) - padded
            IN  /\ left >= hdr + 8
                     => /\ rstate'.kind = "readdir"
                        /\ Len(rstate'.buffer) = Len(rstate.buffer) + padded
                        /\ rstate'.offered = NoEntry
                        /\ cur' = cur
                        /\ lastFrame' = NoFrame
                        /\ fin' = NoFin
                /\ (left >= 0 /\ left < hdr + 8)
                     => /\ rstate'.kind = "interrupted"
                        /\ cur' = Idle
                        /\ fin'.kind = "req"
                        /\ fin'.replies = 1
                        /\ lastFrame'.call = "ok"
                        /\ lastFrame'.error = 0
                        /\ lastFrame'.unique = cur.unique
                        /\ Len(lastFrame'.payload)
                              = Len(rstate.buffer) + padded
                        /\ SubSeq(lastFrame'.payload, 1, Len(rstate.buffer))
                              = rstate.buffer
      ]_vars

\* A Readdir reply allowing 64 bytes took one 40-byte record, which left
\* room for an entry header but not for a name, and went out at once.
C37_Witness ==
    /\ rstate = InterruptedState(TRUE)
    /\ fin.opcode = OP_READDIR
    /\ U32At(fin.body, 17) = 64
    /\ lastFrame.call = "ok"
    /\ lastFrame.result = "Ok"
    /\ Len(lastFrame.payload) = 40

\* ------------------------------------------------- sizes of request buffers
SystemPageSizes == {4096, 8192, 16384, 65536}

PagesUnchanged ==
    UNCHANGED << phase, startMp, mountpoint, pending, unmounts, takes, pool,
                 permits, pageSize, rounds, served, initCalls, startResult,
                 cur, owned, aborted, lastFrame, fin, recvResult, unmountRet,
                 interrupts, rxSeen, lastRead, rstate, unveiled, request,
                 peers, bufs, subscribed, fuse, oc >>

\* Buffer::new(pages): vec![0; pages * page_size()]
BufferNew(pages, page_size) == pages * page_size

\* Start::start: buffer_pages = MIN_READ_SIZE / page_size(), on a system
\* whose page size is p.
PagesStart(p) ==
    /\ lens.pc = "none"
    /\ lens' = [lens EXCEPT !.pc = "filling", !.page_size = p,
                            !.buffer_pages = MIN_READ_SIZE \div p]
    /\ PagesUnchanged

\* One round of repeat_with(|| Buffer::new(buffer_pages)).take(buffer_count)
PagesBuffer ==
    /\ lens.pc = "filling"
    /\ Len(lens.buffers) < SHARED_BUFFERS
    /\ lens' = [lens EXCEPT !.buffers =
                    Append(@, BufferNew(lens.buffer_pages, lens.page_size))]
    /\ PagesUnchanged

\* The Session is built and the handshake's buffer popped from the pool.
PagesSession ==
    /\ lens.pc = "filling"
    /\ Len(lens.buffers) = SHARED_BUFFERS
    /\ lens' = [lens EXCEPT
                  !.pc = "handshake",
                  !.init_buffer = lens.buffers[Len(lens.buffers)],
                  !.buffers = SubSeq(lens.buffers, 1, Len(lens.buffers) - 1)]
    /\ PagesUnchanged

\* Session::handshake and Reply<Init>::ok. A buffer that cannot take the
\* kernel's Init message (an InHeader and an InitIn) makes the read fail
\* or come back short, whichever the kernel does, and start() returns that
\* error. Otherwise ok() computes max_write = buffer_size - 80 in usize:
\* below zero the subtraction panics or wraps, and the wrapped value then
\* fails try_into::<u32>().unwrap(): "panic" either way.
PagesHandshake(error) ==
    /\ lens.pc = "handshake"
    /\ IF lens.init_buffer < HEADER_END + 16
       THEN lens' = [lens EXCEPT !.pc = "failed", !.result = error]
       ELSE LET buffer_size == lens.page_size * lens.buffer_pages
            IN  IF buffer_size < WRITE_OVERHEAD
                THEN lens' = [lens EXCEPT !.pc = "failed",
                                          !.max_write = "panic",
                                          !.result = "panic"]
                ELSE lens' = [lens EXCEPT
                                !.pc = "running",
                                !.max_write = "fits",
                                !.result = "Ok",
                                !.buffers = Append(@, lens.init_buffer),
                                !.init_buffer = -1]
    /\ PagesUnchanged

\* Session::endpoint: local_buffer = Buffer::new(self.buffer_pages)
PagesEndpoint ==
    /\ lens.pc = "running"
    /\ Len(lens.local_buffers) < MaxEndpoints
    /\ lens' = [lens EXCEPT !.local_buffers =
                    Append(@, BufferNew(lens.buffer_pages, lens.page_size))]
    /\ PagesUnchanged

NextPages ==
    \/ \E p \in SystemPageSizes : PagesStart(p)
    \/ PagesBuffer
    \/ PagesSession
    \/ \E error \in {"Io", "Truncated"} : PagesHandshake(error)
    \/ PagesEndpoint

SpecPages == Init /\ [][NextPages]_vars

\* C38: whatever the system's page size, every request buffer of a
\* session, in the pool, in the handshake's hands or local to an endpoint,
\* is at least MIN_READ_SIZE bytes long, and the max_write of the Init
\* reply is computed without underflow.
C38_BufferLengths ==
    /\ \A i \in 1..Len(lens.buffers) : lens.buffers[i] >= MIN_READ_SIZE
    /\ \A i \in 1..Len(lens.local_buffers) :
          lens.local_buffers[i] >= MIN_READ_SIZE
    /\ lens.init_buffer # -1 => lens.init_buffer >= MIN_READ_SIZE
    /\ lens.max_write # "panic"

\* ------------------------------------- lookup counts (src/src/fuse/session.rs)
FuseUnchanged ==
    UNCHANGED << phase, startMp, mountpoint, pending, unmounts, takes, pool,
                 permits, pageSize, rounds, served, initCalls, startResult,
                 cur, owned, aborted, lastFrame, fin, recvResult, unmountRet,
                 interrupts, rxSeen, lastRead, rstate, unveiled, request,
                 peers, bufs, subscribed, lens, oc >>

\* The inos the kernel and the filesystem name, and the nlookup values of
\* Forget and BatchForget targets (u64; the last stands for a huge one).
FuseInos == {ROOT, 2, 3}

ForgetCounts == {0, 1, 2, 2147483647}

ForgetTargets ==
    LET one == {<< <<i, n>> >> : i \in FuseInos, n \in ForgetCounts}
    IN  one \cup {a \o b : a \in one, b \in one}

\* The HashMap as the set of its entries, one per ino.
Has(table, ino) == \E e \in table : e.ino = ino

EntryOf(table, ino) == CHOOSE e \in table : e.ino = ino

\* HashMap::insert
Insert(table, ino, count) ==
    {e \in table : e.ino # ino} \cup {[ino |-> ino, count |-> count]}

\* unveil: Occupied => *count += 1, Vacant => insert((inode, 1))
UnveilEntry(table, ino) ==
    IF Has(table, ino)
    THEN Insert(table, ino, EntryOf(table, ino).count + 1)
    ELSE Insert(table, ino, 1)

\* u64::saturating_sub
SaturatingSub(count, subtracted) ==
    IF subtracted > count THEN 0 ELSE count - subtracted

\* ForgetEntry that keeps an entry whose count has reached 0.
ForgetEntryKeepsZero(table, ino, subtracted) ==
    IF Has(table, ino)
    THEN Insert(table, ino,
                SaturatingSub(EntryOf(table, ino).count, subtracted))
    ELSE table

\* One round of forget's loop over its targets.
ForgetEntry(table, ino, subtracted) ==
    IF Has(table, ino)
    THEN LET count == SaturatingSub(EntryOf(table, ino).count, subtracted)
         IN  IF count > 0 THEN Insert(table, ino, count)
             ELSE {e \in table : e.ino # ino}
    ELSE table

RECURSIVE ForgetAll(_, _)
ForgetAll(table, targets) ==
    IF targets = <<>> THEN table
    ELSE ForgetAll(ForgetEntry(table, Head(targets)[1], Head(targets)[2]),
                   Tail(targets))

\* The end of the handshake: the root goes into the table with count 1.
FuseHandshake ==
    /\ ~fuse.started
    /\ fuse' = [known |-> Insert(fuse.known, ROOT, 1), started |-> TRUE,
                last |-> [NoLast EXCEPT !.op = "handshake"]]
    /\ FuseUnchanged

\* unveil(session, inode), from a reply that names the inode to the kernel.
FuseUnveil(ino) ==
    /\ fuse.started
    /\ Has(fuse.known, ino) => EntryOf(fuse.known, ino).count < MaxCount
    /\ fuse' = [fuse EXCEPT
                  !.known = UnveilEntry(fuse.known, ino),
                  !.last = [op |-> "unveil", targets |-> << <<ino, 0>> >>,
                            errno |-> 0]]
    /\ FuseUnchanged

\* dispatch of Forget (one target) or BatchForget: Session::forget, no
\* reply.
FuseForget(targets) ==
    /\ fuse.started
    /\ fuse' = [fuse EXCEPT
                  !.known = ForgetAll(fuse.known, targets),
                  !.last = [op |-> "forget", targets |-> targets,
                            errno |-> 0]]
    /\ FuseUnchanged

\* dispatch of a request that targets an inode (any body but Forget,
\* Statfs, Interrupt, Destroy and BatchForget): the ino is looked up in the
\* table, and a miss is failed with ENOANO.
FuseRequest(ino) ==
    /\ fuse.started
    /\ fuse' = [fuse EXCEPT
                  !.last = [op |-> "request", targets |-> << <<ino, 0>> >>,
                            errno |-> IF Has(fuse.known, ino) THEN 0
                                      ELSE ENOANO]]
    /\ FuseUnchanged

NextFuse ==
    \/ FuseHandshake
    \/ \E ino \in FuseInos : FuseUnveil(ino)
    \/ \E targets \in ForgetTargets : FuseForget(targets)
    \/ \E ino \in FuseInos : FuseRequest(ino)

SpecFuse == Init /\ [][NextFuse]_vars

\* C39: every entry of the lookup-count table has a count of at least 1
\* (and each ino at most one entry); the handshake leaves the root in it
\* with count 1; unveil inserts an absent ino with count 1 and adds 1 to
\* the count of a present one; a forget of n removes the entry when its
\* count is n or less and otherwise subtracts n, and changes nothing for
\* an ino the table does not hold; a request for an ino the table does not
\* hold is answered ENOANO, and the table is left as it was.
C39_LookupCounts ==
    /\ [](\A e \in fuse.known :
            /\ e.count >= 1
            /\ \A d \in fuse.known : d.ino = e.ino => d = e)
    /\ [](fuse.last.op = "handshake"
            => [ino |-> ROOT, count |-> 1] \in fuse.known)
    /\ [][fuse'.last.op = "unveil"
            => LET i == fuse'.last.targets[1][1]
                   others == {e \in fuse.known : e.ino # i}
               IN  IF \E e \in fuse.known : e.ino = i
                   THEN \E e \in fuse.known :
                           /\ e.ino = i
                           /\ fuse'.known = others
                                \cup {[ino |-> i, count |-> e.count + 1]}
                   ELSE fuse'.known = fuse.known
                                \cup {[ino |-> i, count |-> 1]}]_vars
    /\ [][(fuse'.last.op = "forget" /\ Len(fuse'.last.targets) = 1)
            => LET i == fuse'.last.targets[1][1]
                   n == fuse'.last.targets[1][2]
                   others == {e \in fuse.known : e.ino # i}
               IN  IF \E e \in fuse.known : e.ino = i
                   THEN \E e \in fuse.known :
                           /\ e.ino = i
                           /\ fuse'.known =
                                IF e.count <= n THEN others
                                ELSE others \cup {[ino |-> i,
                                                   count |-> e.count - n]}
                   ELSE fuse'.known = fuse.known]_vars
    /\ [][fuse'.last.op = "forget"
            => \A i \in FuseInos :
                  (\A k \in 1..Len(fuse'.last.targets) :
                        fuse'.last.targets[k][1] # i
                     \/ ~(\E e \in fuse.known : e.ino = i))
                    => {e \in fuse'.known : e.ino = i}
                         = {e \in fuse.known : e.ino = i}]_vars
    /\ [][fuse'.last.op = "request"
            => /\ fuse'.known = fuse.known
               /\ (fuse'.last.errno = ENOANO)
                    <=> ~(\E e \in fuse.known :
                            e.ino = fuse'.last.targets[1][1])]_vars

\* A BatchForget of two targets has removed the root while another inode
\* unveiled twice keeps its entry.
C39_Witness ==
    /\ fuse.last.op = "forget"
    /\ Len(fuse.last.targets) = 2
    /\ ~(\E e \in fuse.known : e.ino = ROOT)
    /\ \E e \in fuse.known : e.count >= 2

====
